---------------------------- MODULE Spec2Model ----------------------------
(***************************************************************************)
(* A model of hardware/kicad/generate_pcb.py: the S-expression tokenizer   *)
(* and tree builder, the schematic extractor, the classifier               *)
(* (group_components), the layout engine (place_components) and the board  *)
(* serializer (generate_pcb).                                              *)
(*                                                                         *)
(* Text is a sequence of one-character strings.  A Python list of          *)
(* Component objects is a sequence of records; the position of a record in *)
(* `components` is the identity of the object, and every other list that   *)
(* holds the same objects (the nine groups) holds those positions.         *)
(* Coordinates are whole millimetres: every constant of the layout code is *)
(* a whole number and main() selects even board sizes.                     *)
(*                                                                         *)
(* Spec is main(): parse, group, place, generate.  SpecParse, SpecLayout   *)
(* and SpecBoard run one stage each on a wider range of inputs: schematic  *)
(* texts, reference lists and record strings.                              *)
(***************************************************************************)
EXTENDS Integers, Sequences, FiniteSets, TLC

VARIABLES
    pc,            \* the stage main() (or the driver of one stage) has reached
    plan,          \* the shape of the schematic the run was given
    text,          \* the schematic text
    tokens,        \* the token list of the text that was last tokenized
    pos,           \* pos[0], the tree builder's cursor (0-based)
    doc,           \* the tree parse_tokens returned
    components,    \* the Component objects, in creation order
    groups,        \* group name -> list of references to Component objects
    compact,       \* the layout policy
    board_width,
    board_height,
    num_layers,
    pcb_content,   \* the board text generate_pcb returned
    uuid_calls     \* how many identifiers generate_uuid has handed out

vars == << pc, plan, text, tokens, pos, doc, components, groups, compact,
           board_width, board_height, num_layers, pcb_content, uuid_calls >>

\* Python's None where a str is expected: no sequence of characters equals it
None == << "None" >>

\* Python's None where an SExp is expected
NoNode == [tag |-> None, children |-> << >>, value |-> None]

\* F(v), with v evaluated once however often F uses it
Bind(v, F(_)) == CHOOSE r \in { F(x) : x \in { v } } : TRUE

----------------------------------------------------------------------------
(* Strings *)

\* the characters of a string literal
Chars(s) == [i \in 1..Len(s) |-> SubSeq(s, i, i)]

Digits == << "0", "1", "2", "3", "4", "5", "6", "7", "8", "9" >>

IsDigit(c) == \E d \in 1..10 : Digits[d] = c

DigitVal(c) == (CHOOSE d \in 1..10 : Digits[d] = c) - 1

\* str(n) for a natural number n
RECURSIVE Dec(_)
Dec(n) == IF n < 10 THEN << Digits[n + 1] >>
          ELSE Dec(n \div 10) \o << Digits[(n % 10) + 1] >>

\* s.startswith(p)
startswith(s, p) == Len(s) >= Len(p) /\ SubSeq(s, 1, Len(p)) = p

\* s[k:] with a 0-based k
slice_from(s, k) == SubSeq(s, k + 1, Len(s))

\* the characters str.strip() and int() treat as blank
StripSpace == { " ", "\t", "\n", "\r", "\f" }

\* int(s) of a str: blanks stripped at both ends, an optional sign, then
\* decimal digits in which single underscores may separate digits; anything
\* else raises ValueError (ok = FALSE).
py_int(s) ==
    LET first == IF \E k \in 1..Len(s) : s[k] \notin StripSpace
                 THEN CHOOSE k \in 1..Len(s) :
                        /\ s[k] \notin StripSpace
                        /\ \A m \in 1..(k - 1) : s[m] \in StripSpace
                 ELSE 1
        last  == IF \E k \in 1..Len(s) : s[k] \notin StripSpace
                 THEN CHOOSE k \in 1..Len(s) :
                        /\ s[k] \notin StripSpace
                        /\ \A m \in (k + 1)..Len(s) : s[m] \in StripSpace
                 ELSE 0
        core   == SubSeq(s, first, last)
        signed == Len(core) > 0 /\ core[1] \in { "+", "-" }
        body   == IF signed THEN Tail(core) ELSE core
        wellformed ==
            /\ Len(body) > 0
            /\ IsDigit(body[1])
            /\ IsDigit(body[Len(body)])
            /\ \A k \in 1..Len(body) : IsDigit(body[k]) \/ body[k] = "_"
            /\ \A k \in 1..(Len(body) - 1) : ~(body[k] = "_" /\ body[k + 1] = "_")
        digs == SelectSeq(body, IsDigit)
        mag[k \in 0..Len(digs)] ==
            IF k = 0 THEN 0 ELSE mag[k - 1] * 10 + DigitVal(digs[k])
    IN  IF wellformed
        THEN [ok |-> TRUE,
              val |-> IF signed /\ core[1] = "-" THEN 0 - mag[Len(digs)] ELSE mag[Len(digs)]]
        ELSE [ok |-> FALSE, val |-> 0]

----------------------------------------------------------------------------
(* tokenize *)

\* c.isspace()
isspace(c) == c \in { " ", "\t", "\n", "\r", "\f" }

\* c in '() \t\n\r"'
ends_atom(c) == c \in { "(", ")", " ", "\t", "\n", "\r", "\"" }

\* text[a:b] with 0-based a, b (b is cut to len(text))
slice(s, a, b) == SubSeq(s, a + 1, IF b > Len(s) THEN Len(s) ELSE b)

\* A Python `while` loop is written as two operators: <loop>_run(..., k) makes
\* up to 8^k passes and stops as soon as the loop condition fails, and the
\* loop itself calls it with k = 0, 1, 2, ... until the condition fails.  The
\* tuple << s1, ..., s8 >> is built from left to right, so that each pass is
\* computed before the next one asks for it.

\* one pass of the quoted scan that steps over a backslash like any character
quoted_scan_run_no_skip(txt, j, k) ==
    IF ~(j < Len(txt) /\ txt[j + 1] # "\"") THEN j ELSE j + 1

\* while j < len(text) and text[j] != '"': j += 2 if text[j] == '\\' else 1
RECURSIVE quoted_scan_run(_, _, _), quoted_scan(_, _, _)
quoted_scan_run(txt, j, k) ==
    IF ~(j < Len(txt) /\ txt[j + 1] # "\"") THEN j
    ELSE IF k = 0 THEN (IF txt[j + 1] = "\\" THEN j + 2 ELSE j + 1)
    ELSE LET s1 == quoted_scan_run(txt, j, k - 1)
             s2 == quoted_scan_run(txt, s1, k - 1)
             s3 == quoted_scan_run(txt, s2, k - 1)
             s4 == quoted_scan_run(txt, s3, k - 1)
             s5 == quoted_scan_run(txt, s4, k - 1)
             s6 == quoted_scan_run(txt, s5, k - 1)
             s7 == quoted_scan_run(txt, s6, k - 1)
             s8 == quoted_scan_run(txt, s7, k - 1)
         IN  << s1, s2, s3, s4, s5, s6, s7, s8 >>[8]

quoted_scan(txt, j, k) ==
    IF ~(j < Len(txt) /\ txt[j + 1] # "\"") THEN j
    ELSE quoted_scan(txt, quoted_scan_run(txt, j, k), k + 1)

\* while j < len(text) and text[j] not in '() \t\n\r"': j += 1
RECURSIVE atom_scan_run(_, _, _), atom_scan(_, _, _)
atom_scan_run(txt, j, k) ==
    IF ~(j < Len(txt) /\ ~ends_atom(txt[j + 1])) THEN j
    ELSE IF k = 0 THEN j + 1
    ELSE LET s1 == atom_scan_run(txt, j, k - 1)
             s2 == atom_scan_run(txt, s1, k - 1)
             s3 == atom_scan_run(txt, s2, k - 1)
             s4 == atom_scan_run(txt, s3, k - 1)
             s5 == atom_scan_run(txt, s4, k - 1)
             s6 == atom_scan_run(txt, s5, k - 1)
             s7 == atom_scan_run(txt, s6, k - 1)
             s8 == atom_scan_run(txt, s7, k - 1)
         IN  << s1, s2, s3, s4, s5, s6, s7, s8 >>[8]

atom_scan(txt, j, k) ==
    IF ~(j < Len(txt) /\ ~ends_atom(txt[j + 1])) THEN j
    ELSE atom_scan(txt, atom_scan_run(txt, j, k), k + 1)

\* a step that appends the token and leaves the index at the token's start
token_step_stay(txt, st, a, j, after) ==
    [i |-> a, tokens |-> Append(st.tokens, slice(txt, a, j))]

\* tokens.append(text[a:j]); i = after
token_step(txt, st, a, j, after) ==
    [i |-> after, tokens |-> Append(st.tokens, slice(txt, a, j))]

\* one pass of `while i < len(text)`; st = [i, tokens]
tokenize_body(txt, st) ==
    LET i == st.i
        c == txt[i + 1]
    IN  IF c \in { "(", ")" }
        THEN [i |-> i + 1, tokens |-> Append(st.tokens, << c >>)]
        ELSE IF c = "\""
        THEN LET j == quoted_scan(txt, i + 1, 0) IN token_step(txt, st, i + 1, j, j + 1)
        ELSE IF isspace(c)
        THEN [i |-> i + 1, tokens |-> st.tokens]
        ELSE LET j == atom_scan(txt, i, 0) IN token_step(txt, st, i, j, j)

RECURSIVE tokenize_run(_, _, _), tokenize_loop(_, _, _)
tokenize_run(txt, st, k) ==
    IF ~(st.i < Len(txt)) THEN st
    ELSE IF k = 0 THEN tokenize_body(txt, st)
    ELSE LET s1 == tokenize_run(txt, st, k - 1)
             s2 == tokenize_run(txt, s1, k - 1)
             s3 == tokenize_run(txt, s2, k - 1)
             s4 == tokenize_run(txt, s3, k - 1)
             s5 == tokenize_run(txt, s4, k - 1)
             s6 == tokenize_run(txt, s5, k - 1)
             s7 == tokenize_run(txt, s6, k - 1)
             s8 == tokenize_run(txt, s7, k - 1)
         IN  << s1, s2, s3, s4, s5, s6, s7, s8 >>[8]

tokenize_loop(txt, st, k) ==
    IF ~(st.i < Len(txt)) THEN st
    ELSE tokenize_loop(txt, tokenize_run(txt, st, k), k + 1)

tokenize(txt) == tokenize_loop(txt, [i |-> 0, tokens |-> << >>], 0).tokens

----------------------------------------------------------------------------
(* SExp and parse_tokens *)

\* an SExp that takes its value as its tag as well
SExp_tagged_leaf(tag, children, value) ==
    [tag |-> IF value # None THEN value ELSE tag, children |-> children, value |-> value]

\* SExp(tag, children, value)
SExp(tag, children, value) == [tag |-> tag, children |-> children, value |-> value]

LPAREN == << "(" >>
RPAREN == << ")" >>

\* the cursor after an unguarded `pos[0] += 1`
skip_closing_unguarded(toks, p) == p + 1

\* the cursor after `if pos[0] < len(tokens): pos[0] += 1`
skip_closing(toks, p) == IF p < Len(toks) THEN p + 1 ELSE p

\* a node that takes each new child in front of the others
children_prepend(node, child) == [node EXCEPT !.children = << child >> \o @]

\* node.children.append(child)
children_append(node, child) == [node EXCEPT !.children = Append(@, child)]

\* parse_tokens calls itself for every "(" it meets among the children of the
\* node it is building.  The calls in progress are kept as a stack of the nodes
\* they are building, the innermost call last; st = [stack, pos, node], where
\* node is what the outermost call has returned once the stack is empty.

\* the innermost call returns node: it becomes the result, or a child of the
\* node its caller is building
parse_return(st, node, p) ==
    LET depth == Len(st.stack)
    IN  IF depth = 1
        THEN [stack |-> << >>, pos |-> p, node |-> node]
        ELSE [stack |-> SubSeq(st.stack, 1, depth - 2)
                           \o << children_append(st.stack[depth - 1], node) >>,
              pos |-> p, node |-> st.node]

\* the next step of the innermost call: one pass of its
\* `while pos[0] < len(tokens) and tokens[pos[0]] != ')'`, or its return
parse_body(toks, st) ==
    LET depth == Len(st.stack)
        node  == st.stack[depth]
        p     == st.pos
    IN  IF p < Len(toks) /\ toks[p + 1] # RPAREN
        THEN IF toks[p + 1] = LPAREN
             THEN IF p + 1 >= Len(toks)
                  THEN [st EXCEPT !.stack[depth] = children_append(node, SExp(<< >>, << >>, None)),
                                  !.pos = p + 1]
                  ELSE [st EXCEPT !.stack = Append(@, SExp(toks[p + 2], << >>, None)),
                                  !.pos = p + 2]
             ELSE [st EXCEPT !.stack[depth] = children_append(node, SExp(<< >>, << >>, toks[p + 1])),
                             !.pos = p + 1]
        ELSE parse_return(st, node, skip_closing(toks, p))

RECURSIVE parse_run(_, _, _), parse_loop(_, _, _)
parse_run(toks, st, k) ==
    IF ~(st.stack # << >>) THEN st
    ELSE IF k = 0 THEN parse_body(toks, st)
    ELSE LET s1 == parse_run(toks, st, k - 1)
             s2 == parse_run(toks, s1, k - 1)
             s3 == parse_run(toks, s2, k - 1)
             s4 == parse_run(toks, s3, k - 1)
             s5 == parse_run(toks, s4, k - 1)
             s6 == parse_run(toks, s5, k - 1)
             s7 == parse_run(toks, s6, k - 1)
             s8 == parse_run(toks, s7, k - 1)
         IN  << s1, s2, s3, s4, s5, s6, s7, s8 >>[8]

parse_loop(toks, st, k) ==
    IF ~(st.stack # << >>) THEN st
    ELSE parse_loop(toks, parse_run(toks, st, k), k + 1)

\* parse_tokens(tokens, pos): the node returned and the cursor it leaves
parse_tokens(toks, p) ==
    IF p >= Len(toks) THEN [node |-> SExp(<< >>, << >>, None), pos |-> p]
    ELSE IF toks[p + 1] = LPAREN
    THEN IF p + 1 >= Len(toks) THEN [node |-> SExp(<< >>, << >>, None), pos |-> p + 1]
         ELSE LET st == parse_loop(toks, [stack |-> << SExp(toks[p + 2], << >>, None) >>,
                                          pos |-> p + 2, node |-> NoNode], 0)
              IN  [node |-> st.node, pos |-> st.pos]
    ELSE [node |-> SExp(<< >>, << >>, toks[p + 1]), pos |-> p + 1]

\* SExp.find_all(tag)
find_all(node, tag) == SelectSeq(node.children, LAMBDA c : c.tag = tag)

\* SExp.get(tag): the first child with the tag, or None (NoNode)
get(node, tag) ==
    IF \E k \in 1..Len(node.children) : node.children[k].tag = tag
    THEN node.children[CHOOSE k \in 1..Len(node.children) :
                          /\ node.children[k].tag = tag
                          /\ \A m \in 1..(k - 1) : node.children[m].tag # tag]
    ELSE NoNode

\* SExp.get_atoms()
get_atoms(node) ==
    LET atoms == SelectSeq(node.children, LAMBDA c : c.value # None)
    IN  [k \in 1..Len(atoms) |-> atoms[k].value]

\* SExp.get_first_atom()
get_first_atom(node) ==
    LET atoms == get_atoms(node) IN IF Len(atoms) > 0 THEN atoms[1] ELSE None

----------------------------------------------------------------------------
(* Component *)

F_Cu == Chars("F.Cu")

\* Component(ref=..., value=..., footprint=..., lib_id=...)
Component(ref, value, footprint, lib_id) ==
    [ref |-> ref, value |-> value, footprint |-> footprint, lib_id |-> lib_id,
     x |-> 0, y |-> 0, rotation |-> 0, layer |-> F_Cu]

----------------------------------------------------------------------------
(* parse_schematic *)

S_lib_symbols == Chars("lib_symbols")
S_symbol      == Chars("symbol")
S_lib_id      == Chars("lib_id")
S_property    == Chars("property")
S_Reference   == Chars("Reference")
S_Value       == Chars("Value")
S_Footprint   == Chars("Footprint")
S_power       == Chars("power:")

\* parse_sexp(text): tokens = tokenize(text); pos = [0]; parse_tokens(tokens, pos)
parse_sexp(txt) ==
    LET toks == tokenize(txt)
        r    == parse_tokens(toks, 0)
    IN  [tokens |-> toks, node |-> r.node, pos |-> r.pos]

\* a pass that keeps the first value a name was given
property_body_first_wins(st, prop) ==
    LET prop_atoms == get_atoms(prop)
    IN  IF Len(prop_atoms) >= 2
        THEN LET prop_name  == prop_atoms[1]
                 prop_value == prop_atoms[2]
             IN  IF prop_name = S_Reference /\ st.ref = << >>
                 THEN [st EXCEPT !.ref = prop_value]
                 ELSE IF prop_name = S_Value /\ st.value = << >>
                 THEN [st EXCEPT !.value = prop_value]
                 ELSE IF prop_name = S_Footprint /\ st.footprint = << >>
                 THEN [st EXCEPT !.footprint = prop_value]
                 ELSE st
        ELSE st

\* one pass of `for prop in sym.find_all("property")`; st = [ref, value, footprint]
property_body(st, prop) ==
    LET prop_atoms == get_atoms(prop)
    IN  IF Len(prop_atoms) >= 2
        THEN LET prop_name  == prop_atoms[1]
                 prop_value == prop_atoms[2]
             IN  IF prop_name = S_Reference THEN [st EXCEPT !.ref = prop_value]
                 ELSE IF prop_name = S_Value THEN [st EXCEPT !.value = prop_value]
                 ELSE IF prop_name = S_Footprint THEN [st EXCEPT !.footprint = prop_value]
                 ELSE st
        ELSE st

RECURSIVE property_loop(_, _, _, _)
property_loop(props, st, lo, hi) ==
    IF lo > hi THEN st
    ELSE IF lo = hi THEN property_body(st, props[lo])
    ELSE LET mid == (lo + hi) \div 2
         IN  property_loop(props, property_loop(props, st, lo, mid), mid + 1, hi)

\* a list that grows at the front
record_append_front(comps, rec) == << rec >> \o comps

\* components.append(...)
record_append(comps, rec) == Append(comps, rec)

\* a scan that asks only for a reference
symbol_properties_ref_only(comps, sym, lib_id) ==
    LET props == find_all(sym, S_property)
        st    == property_loop(props, [ref |-> << >>, value |-> << >>, footprint |-> << >>],
                               1, Len(props))
    IN  IF st.ref # << >>
        THEN record_append(comps, Component(st.ref, st.value, st.footprint, lib_id))
        ELSE comps

\* the records of a symbol once its lib_id is accepted: the property scan and
\* `if ref and footprint`
symbol_properties(comps, sym, lib_id) ==
    LET props == find_all(sym, S_property)
        st    == property_loop(props, [ref |-> << >>, value |-> << >>, footprint |-> << >>],
                               1, Len(props))
    IN  IF st.ref # << >> /\ st.footprint # << >>
        THEN record_append(comps, Component(st.ref, st.value, st.footprint, lib_id))
        ELSE comps

\* one pass of `for child in doc.children`
schematic_body(comps, child) ==
    IF child.tag = S_lib_symbols THEN comps
    ELSE IF child.tag # S_symbol THEN comps
    ELSE LET lib_id_node == get(child, S_lib_id)
         IN  IF lib_id_node = NoNode THEN comps
             ELSE LET lib_id == get_first_atom(lib_id_node)
                  IN  IF lib_id = None \/ lib_id = << >> THEN comps
                      ELSE IF startswith(lib_id, S_power) THEN comps
                      ELSE symbol_properties(comps, child, lib_id)

RECURSIVE schematic_loop(_, _, _, _)
schematic_loop(children, comps, lo, hi) ==
    IF lo > hi THEN comps
    ELSE IF lo = hi THEN schematic_body(comps, children[lo])
    ELSE LET mid == (lo + hi) \div 2
         IN  schematic_loop(children, schematic_loop(children, comps, lo, mid), mid + 1, hi)

\* a walk that also visits the children of the lib_symbols forms
schematic_children_deep(root) ==
    LET inner(c) == IF c.tag = S_lib_symbols THEN c.children ELSE << >>
        RECURSIVE flat(_)
        flat(cs) == IF cs = << >> THEN << >> ELSE << Head(cs) >> \o inner(Head(cs)) \o flat(Tail(cs))
    IN  flat(root.children)

\* the nodes `for child in doc.children` visits
schematic_children(root) == root.children

\* parse_schematic, from the parsed document on
parse_schematic(root) ==
    LET children == schematic_children(root)
    IN  schematic_loop(children, << >>, 1, Len(children))

----------------------------------------------------------------------------
(* group_components *)

GroupNames == << "supercap_pos", "supercap_neg", "connectors", "mcu", "sensing",
                 "discharge", "charging", "power", "passives" >>

empty_groups == [g \in { GroupNames[k] : k \in 1..Len(GroupNames) } |-> << >>]

\* groups[g].append(comp)
group_append(grps, g, c) == [grps EXCEPT ![g] = Append(@, c)]

FallThrough == "fallthrough"

\* supercap_bank with the upper end of the positive range excluded
supercap_bank_upper_exclusive(ref) ==
    IF startswith(ref, << "C" >>) /\ Len(ref) > 1
    THEN LET num == py_int(slice_from(ref, 1))
         IN  IF ~num.ok THEN FallThrough
             ELSE IF 101 <= num.val /\ num.val < 130 THEN "supercap_pos"
             ELSE IF 131 <= num.val /\ num.val <= 160 THEN "supercap_neg"
             ELSE FallThrough
    ELSE FallThrough

\* the supercap test of one record: the bank it is appended to, or
\* FallThrough when the code goes on to the if/elif chain
supercap_bank(ref) ==
    IF startswith(ref, << "C" >>) /\ Len(ref) > 1
    THEN LET num == py_int(slice_from(ref, 1))
         IN  IF ~num.ok THEN FallThrough
             ELSE IF 101 <= num.val /\ num.val <= 130 THEN "supercap_pos"
             ELSE IF 131 <= num.val /\ num.val <= 160 THEN "supercap_neg"
             ELSE FallThrough
    ELSE FallThrough

\* chain_group with the U rules testing a prefix instead of the whole reference
chain_group_prefix_u(ref) ==
    IF startswith(ref, << "J" >>) THEN "connectors"
    ELSE IF startswith(ref, Chars("U1")) THEN "mcu"
    ELSE IF startswith(ref, Chars("U2")) THEN "sensing"
    ELSE IF startswith(ref, Chars("U3")) THEN "power"
    ELSE IF startswith(ref, Chars("U4")) THEN "sensing"
    ELSE IF ref \in { Chars("Q1"), Chars("Q2") } THEN "discharge"
    ELSE IF ref \in { Chars("Q3"), Chars("Q4"),
                      Chars("R11"), Chars("R12") } THEN "charging"
    ELSE IF startswith(ref, Chars("RV")) THEN "connectors"
    ELSE "passives"

\* the if/elif chain of one record that the supercap test did not take
chain_group(ref) ==
    IF startswith(ref, << "J" >>) THEN "connectors"
    ELSE IF ref = Chars("U1") THEN "mcu"
    ELSE IF ref = Chars("U2") THEN "sensing"
    ELSE IF ref = Chars("U3") THEN "power"
    ELSE IF ref = Chars("U4") THEN "sensing"
    ELSE IF ref \in { Chars("Q1"), Chars("Q2") } THEN "discharge"
    ELSE IF ref \in { Chars("Q3"), Chars("Q4"),
                      Chars("R11"), Chars("R12") } THEN "charging"
    ELSE IF startswith(ref, Chars("RV")) THEN "connectors"
    ELSE IF startswith(ref, << "D" >>) \/ startswith(ref, Chars("LED")) THEN "passives"
    ELSE "passives"

\* group_body without the `continue` after a supercap append
group_body_no_continue(comps, grps, c) ==
    LET bank == supercap_bank(comps[c].ref)
        g1   == IF bank # FallThrough THEN group_append(grps, bank, c) ELSE grps
    IN  group_append(g1, chain_group(comps[c].ref), c)

\* one pass of the body of `for comp in components`; c is the reference to comp
group_body(comps, grps, c) ==
    LET bank == supercap_bank(comps[c].ref)
    IN  IF bank # FallThrough
        THEN group_append(grps, bank, c)   \* append, then `continue`
        ELSE group_append(grps, chain_group(comps[c].ref), c)

\* `for comp in components` over the objects lo..hi, in order
RECURSIVE group_loop(_, _, _, _)
group_loop(comps, grps, lo, hi) ==
    IF lo > hi THEN grps
    ELSE IF lo = hi THEN group_body(comps, grps, lo)
    ELSE LET mid   == (lo + hi) \div 2
             first == group_loop(comps, grps, lo, mid)
         IN  << first, group_loop(comps, first, mid + 1, hi) >>[2]

group_components(comps) == group_loop(comps, empty_groups, 1, Len(comps))

----------------------------------------------------------------------------
(* place_components *)

\* key=lambda c: int(c.ref[1:])
suffix_key(comps, c) == py_int(slice_from(comps[c].ref, 1)).val

\* sorted() is stable: an element goes behind every element whose key is not
\* larger than its own.  keys[k] is the key of lst[k], taken once per element;
\* acc holds positions of lst.
sorted_insert(keys, acc, k) ==
    LET n == Cardinality({ m \in 1..Len(acc) : keys[acc[m]] <= keys[k] })
    IN  SubSeq(acc, 1, n) \o << k >> \o SubSeq(acc, n + 1, Len(acc))

RECURSIVE sorted_loop(_, _, _, _)
sorted_loop(keys, acc, lo, hi) ==
    IF lo > hi THEN acc
    ELSE IF lo = hi THEN sorted_insert(keys, acc, lo)
    ELSE LET mid   == (lo + hi) \div 2
             first == sorted_loop(keys, acc, lo, mid)
         IN  << first, sorted_loop(keys, first, mid + 1, hi) >>[2]

\* the bank taken in list order, without sorted()
sorted_by_suffix_unsorted(comps, lst) == lst

\* sorted(lst, key=lambda c: int(c.ref[1:])): a new list, lst is left as it is
sorted_by_suffix(comps, lst) ==
    LET keys == [k \in 1..Len(lst) |-> suffix_key(comps, lst[k])]
    IN  Bind(sorted_loop(keys, << >>, 1, Len(lst)),
             LAMBDA order : [i \in 1..Len(lst) |-> lst[order[i]]])

\* place_loop adding the offsets to what the record holds
place_loop_relative(comps, order, at, rot) ==
    Bind(order, LAMBDA ord :
        [c \in DOMAIN comps |->
            IF \E k \in 1..Len(ord) : ord[k] = c
            THEN LET k == CHOOSE k \in 1..Len(ord) :
                            /\ ord[k] = c
                            /\ \A m \in (k + 1)..Len(ord) : ord[m] # c
                     i == k - 1
                 IN  [comps[c] EXCEPT !.x = @ + at[i].x, !.y = @ + at[i].y,
                                      !.rotation = rot]
            ELSE comps[c]])

\* place_loop marking the reference of every record it places
place_loop_marks_ref(comps, order, at, rot) ==
    Bind(order, LAMBDA ord :
        [c \in DOMAIN comps |->
            IF \E k \in 1..Len(ord) : ord[k] = c
            THEN LET k == CHOOSE k \in 1..Len(ord) :
                            /\ ord[k] = c
                            /\ \A m \in (k + 1)..Len(ord) : ord[m] # c
                     i == k - 1
                 IN  [comps[c] EXCEPT !.x = at[i].x, !.y = at[i].y, !.rotation = rot,
                                      !.ref = << "P" >> \o @]
            ELSE comps[c]])

\* place_loop without the assignment to comp.rotation
place_loop_keep_rotation(comps, order, at, rot) ==
    Bind(order, LAMBDA ord :
        [c \in DOMAIN comps |->
            IF \E k \in 1..Len(ord) : ord[k] = c
            THEN LET k == CHOOSE k \in 1..Len(ord) :
                            /\ ord[k] = c
                            /\ \A m \in (k + 1)..Len(ord) : ord[m] # c
                     i == k - 1
                 IN  [comps[c] EXCEPT !.x = at[i].x, !.y = at[i].y]
            ELSE comps[c]])

\* for i, comp in enumerate(order):
\*     comp.x = at[i].x; comp.y = at[i].y; comp.rotation = rot
\* (an object that occurs twice in `order` keeps what the last pass wrote)
place_loop(comps, order, at, rot) ==
    Bind(order, LAMBDA ord :
        [c \in DOMAIN comps |->
            IF \E k \in 1..Len(ord) : ord[k] = c
            THEN LET k == CHOOSE k \in 1..Len(ord) :
                            /\ ord[k] = c
                            /\ \A m \in (k + 1)..Len(ord) : ord[m] # c
                     i == k - 1
                 IN  [comps[c] EXCEPT !.x = at[i].x, !.y = at[i].y, !.rotation = rot]
            ELSE comps[c]])

sc_columns == 10

place_compact(comps, grps, width, height) ==
    LET Idx            == 0..Len(comps)
        margin         == 4
        sc_spacing     == 11
        sc_start_x     == margin + 8
        sc_start_y_pos == margin + 8
        sc_start_y_neg == sc_start_y_pos + 3 * sc_spacing + 4
        ctrl_y         == sc_start_y_neg + 3 * sc_spacing + 8
        conn_x         == margin + 8
        mosfet_x       == width - margin - 10
        mosfet_y       == ctrl_y + 10
        mcu_x          == width \div 2
        mcu_y          == ctrl_y + 8
        sense_x        == mcu_x + 25
        sense_y        == mcu_y
        charge_x       == width - margin - 45
        charge_y       == ctrl_y + 5
        passive_x      == mcu_x - 25
        passive_y      == ctrl_y + 20
        c1 == place_loop(comps, sorted_by_suffix(comps, grps["supercap_pos"]),
                         [i \in Idx |-> [x |-> sc_start_x + (i % sc_columns) * sc_spacing,
                                         y |-> sc_start_y_pos + (i \div sc_columns) * sc_spacing]], 0)
        c2 == place_loop(c1, sorted_by_suffix(c1, grps["supercap_neg"]),
                         [i \in Idx |-> [x |-> sc_start_x + (i % sc_columns) * sc_spacing,
                                         y |-> sc_start_y_neg + (i \div sc_columns) * sc_spacing]], 0)
        c3 == place_loop(c2, grps["connectors"],
                         [i \in Idx |-> [x |-> conn_x + i * 15,
                                         y |-> ctrl_y + 5]], 0)
        c4 == place_loop(c3, grps["discharge"],
                         [i \in Idx |-> [x |-> mosfet_x,
                                         y |-> mosfet_y + i * 15]], 270)
        c5 == place_loop(c4, grps["mcu"], [i \in Idx |-> [x |-> mcu_x,
                                         y |-> mcu_y]], 0)
        c6 == place_loop(c5, grps["sensing"],
                         [i \in Idx |-> [x |-> sense_x,
                                         y |-> sense_y + i * 10]], 0)
        c7 == place_loop(c6, grps["power"], [i \in Idx |-> [x |-> mcu_x - 15,
                                         y |-> mcu_y]], 0)
        c8 == place_loop(c7, grps["charging"],
                         [i \in Idx |-> [x |-> charge_x + (i % 2) * 10,
                                         y |-> charge_y + (i \div 2) * 8]], 0)
        c9 == place_loop(c8, grps["passives"],
                         [i \in Idx |-> [x |-> passive_x + (i % 6) * 6,
                                         y |-> passive_y + (i \div 6) * 5]], 0)
    IN  c9

place_standard(comps, grps, width, height) ==
    LET Idx            == 0..Len(comps)
        margin         == 5
        sc_spacing     == 12
        sc_start_x     == margin + 25
        sc_start_y_pos == margin + 15
        sc_start_y_neg == sc_start_y_pos + 3 * sc_spacing + 10
        conn_x         == margin + 8
        conn_y         == 25
        mosfet_x       == width - margin - 12
        mosfet_y       == height \div 2
        mcu_x          == width - margin - 40
        mcu_y          == margin + 20
        sense_x        == width - margin - 50
        sense_y        == margin + 45
        charge_x       == width - margin - 70
        charge_y       == (height \div 2) + 10
        passive_x      == width - margin - 55
        passive_y      == margin + 75
        c1 == place_loop(comps, sorted_by_suffix(comps, grps["supercap_pos"]),
                         [i \in Idx |-> [x |-> sc_start_x + (i % sc_columns) * sc_spacing,
                                         y |-> sc_start_y_pos + (i \div sc_columns) * sc_spacing]], 0)
        c2 == place_loop(c1, sorted_by_suffix(c1, grps["supercap_neg"]),
                         [i \in Idx |-> [x |-> sc_start_x + (i % sc_columns) * sc_spacing,
                                         y |-> sc_start_y_neg + (i \div sc_columns) * sc_spacing]], 0)
        c3 == place_loop(c2, grps["connectors"],
                         [i \in Idx |-> [x |-> conn_x,
                                         y |-> conn_y + i * 18]], 0)
        c4 == place_loop(c3, grps["discharge"],
                         [i \in Idx |-> [x |-> mosfet_x,
                                         y |-> mosfet_y - 10 + i * 20]], 270)
        c5 == place_loop(c4, grps["mcu"], [i \in Idx |-> [x |-> mcu_x,
                                         y |-> mcu_y]], 0)
        c6 == place_loop(c5, grps["sensing"],
                         [i \in Idx |-> [x |-> sense_x,
                                         y |-> sense_y + i * 12]], 0)
        c7 == place_loop(c6, grps["power"], [i \in Idx |-> [x |-> mcu_x - 18,
                                         y |-> mcu_y]], 0)
        c8 == place_loop(c7, grps["charging"],
                         [i \in Idx |-> [x |-> charge_x + (i % 2) * 12,
                                         y |-> charge_y + (i \div 2) * 10]], 0)
        c9 == place_loop(c8, grps["passives"],
                         [i \in Idx |-> [x |-> passive_x + (i % 5) * 7,
                                         y |-> passive_y + (i \div 5) * 5]], 0)
    IN  c9

\* the group lists after a place_components that sorts the banks in place
placed_groups_sorted_in_place(comps, grps) ==
    [grps EXCEPT !["supercap_pos"] = sorted_by_suffix(comps, @),
                 !["supercap_neg"] = sorted_by_suffix(comps, @)]

\* the group lists after place_components: the loops only read them, and
\* sorted() hands the supercap loops a new list
placed_groups(comps, grps) == grps

\* place_components returning without an assignment
place_components_no_assignment(comps, grps, width, height, is_compact) == comps

place_components(comps, grps, width, height, is_compact) ==
    IF is_compact THEN place_compact(comps, grps, width, height)
    ELSE place_standard(comps, grps, width, height)

----------------------------------------------------------------------------
(* generate_pcb *)

\* "\n".join(parts), and sep.join(parts) in general
RECURSIVE join_range(_, _, _, _)
join_range(sep, parts, lo, hi) ==
    IF lo > hi THEN << >>
    ELSE IF lo = hi THEN parts[lo]
    ELSE LET mid == (lo + hi) \div 2
         IN  join_range(sep, parts, lo, mid) \o sep \o join_range(sep, parts, mid + 1, hi)

join(sep, parts) == join_range(sep, parts, 1, Len(parts))

\* a triple-quoted literal, given line by line
Lines(ls) == join(<< "\n" >>, ls)

\* s.replace(old, new) for a one-character old
replace(s, old, new) ==
    join(<< >>, [k \in 1..Len(s) |-> IF s[k] = old THEN new ELSE << s[k] >>])

\* the k-th value generate_uuid() returns: str(uuid.uuid4()) is 36 characters,
\* hexadecimal digits and hyphens, and differs from call to call
generate_uuid(k) ==
    Chars("00000000-0000-4000-8000-")
        \o [j \in 1..(12 - Len(Dec(k))) |-> "0"] \o Dec(k)

\* f"{val:.4f}" for a whole number of millimetres
format_coord(val) ==
    (IF val < 0 THEN << "-" >> \o Dec(0 - val) ELSE Dec(val)) \o Chars(".0000")

\* f"{val:.0f}" for a whole number of millimetres
format_0f(val) == IF val < 0 THEN << "-" >> \o Dec(0 - val) ELSE Dec(val)

\* nets, in the order of the dict literal
nets ==
    << [name |-> Chars(""),       num |-> 0],
       [name |-> Chars("GND"),    num |-> 1],
       [name |-> Chars("+3.3V"),  num |-> 2],
       [name |-> Chars("AC_L"),   num |-> 3],
       [name |-> Chars("AC_N"),   num |-> 4],
       [name |-> Chars("SC_POS"), num |-> 5],
       [name |-> Chars("SC_NEG"), num |-> 6] >>

\* sorted(nets.items(), key=lambda x: x[1])
sorted_nets ==
    [k \in 1..Len(nets) |->
        nets[CHOOSE i \in 1..Len(nets) :
               Cardinality({ j \in 1..Len(nets) :
                               \/ nets[j].num < nets[i].num
                               \/ (nets[j].num = nets[i].num /\ j < i) }) = k - 1]]

\* "\n".join(net_lines)
net_section ==
    Lines([k \in 1..Len(sorted_nets) |->
             Chars("  (net ") \o Dec(sorted_nets[k].num) \o Chars(" \"")
                 \o sorted_nets[k].name \o Chars("\")")])

stackup_comment(width, height, layers) ==
    format_0f(width) \o Chars("x") \o format_0f(height)
        \o (IF layers = 4 THEN Chars("mm 4-layer: F.Cu/GND/PWR/B.Cu")
                          ELSE Chars("mm 2-layer PCB"))

\* layer_def when num_layers == 4
layer_def_4 ==
    Lines(<<
        Chars("  (layers"),
        Chars("    (0 \"F.Cu\" signal)"),
        Chars("    (1 \"In1.Cu\" signal)"),
        Chars("    (2 \"In2.Cu\" signal)"),
        Chars("    (31 \"B.Cu\" signal)"),
        Chars("    (32 \"B.Adhes\" user \"B.Adhesive\")"),
        Chars("    (33 \"F.Adhes\" user \"F.Adhesive\")"),
        Chars("    (34 \"B.Paste\" user)"),
        Chars("    (35 \"F.Paste\" user)"),
        Chars("    (36 \"B.SilkS\" user \"B.Silkscreen\")"),
        Chars("    (37 \"F.SilkS\" user \"F.Silkscreen\")"),
        Chars("    (38 \"B.Mask\" user)"),
        Chars("    (39 \"F.Mask\" user)"),
        Chars("    (40 \"Dwgs.User\" user \"User.Drawings\")"),
        Chars("    (41 \"Cmts.User\" user \"User.Comments\")"),
        Chars("    (44 \"Edge.Cuts\" user)"),
        Chars("    (46 \"B.CrtYd\" user \"B.Courtyard\")"),
        Chars("    (47 \"F.CrtYd\" user \"F.Courtyard\")"),
        Chars("    (48 \"B.Fab\" user)"),
        Chars("    (49 \"F.Fab\" user)"),
        Chars("  )")
    >>)

\* layer_def otherwise
layer_def_2 ==
    Lines(<<
        Chars("  (layers"),
        Chars("    (0 \"F.Cu\" signal)"),
        Chars("    (31 \"B.Cu\" signal)"),
        Chars("    (32 \"B.Adhes\" user \"B.Adhesive\")"),
        Chars("    (33 \"F.Adhes\" user \"F.Adhesive\")"),
        Chars("    (34 \"B.Paste\" user)"),
        Chars("    (35 \"F.Paste\" user)"),
        Chars("    (36 \"B.SilkS\" user \"B.Silkscreen\")"),
        Chars("    (37 \"F.SilkS\" user \"F.Silkscreen\")"),
        Chars("    (38 \"B.Mask\" user)"),
        Chars("    (39 \"F.Mask\" user)"),
        Chars("    (40 \"Dwgs.User\" user \"User.Drawings\")"),
        Chars("    (41 \"Cmts.User\" user \"User.Comments\")"),
        Chars("    (44 \"Edge.Cuts\" user)"),
        Chars("    (46 \"B.CrtYd\" user \"B.Courtyard\")"),
        Chars("    (47 \"F.CrtYd\" user \"F.Courtyard\")"),
        Chars("    (48 \"B.Fab\" user)"),
        Chars("    (49 \"F.Fab\" user)"),
        Chars("  )")
    >>)

\* the header section
header(comment, layer_def) ==
    Lines(<<
        Chars("(kicad_pcb"),
        Chars("  (version 20241229)"),
        Chars("  (generator \"generate_pcb.py\")"),
        Chars("  (generator_version \"1.0\")"),
        Chars("  (general"),
        Chars("    (thickness 1.6)"),
        Chars("    (legacy_teardrops no)"),
        Chars("  )"),
        Chars("  (paper \"A4\")"),
        Chars("  (title_block"),
        Chars("    (title \"Generator Soft-Start\")"),
        Chars("    (date \"2025-01\")"),
        Chars("    (rev \"A\")"),
        Chars("    (comment 1 \"Supercapacitor Power Assist\")"),
        Chars("    (comment 2 \"") \o comment \o Chars("\")"),
        Chars("  )"),
        layer_def,
        Chars("  (setup"),
        Chars("    (pad_to_mask_clearance 0.05)"),
        Chars("    (allow_soldermask_bridges_in_footprints no)"),
        Chars("    (pcbplotparams"),
        Chars("      (layerselection 0x00010fc_ffffffff)"),
        Chars("      (plot_on_all_layers_selection 0x0000000_00000000)"),
        Chars("    )"),
        Chars("  )")
    >>)

\* the board outline section
outline(width, height, outline_uuid) ==
    Lines(<<
        << >>,
        Chars("  (gr_rect"),
        Chars("    (start 0 0)"),
        Chars("    (end ") \o format_coord(width) \o Chars(" ") \o format_coord(height) \o Chars(")"),
        Chars("    (stroke"),
        Chars("      (width 0.15)"),
        Chars("      (type solid)"),
        Chars("    )"),
        Chars("    (fill none)"),
        Chars("    (layer \"Edge.Cuts\")"),
        Chars("    (uuid \"") \o outline_uuid \o Chars("\")"),
        Chars("  )")
    >>)

\* one mounting hole; its generate_uuid() calls are numbers u + 1 .. u + 5
mounting_hole(i, mx, my, u) ==
    Lines(<<
        << >>,
        Chars("  (footprint \"MountingHole:MountingHole_3.2mm_M3\""),
        Chars("    (layer \"F.Cu\")"),
        Chars("    (uuid \"") \o generate_uuid(u + 1) \o Chars("\")"),
        Chars("    (at ") \o format_coord(mx) \o Chars(" ") \o format_coord(my) \o Chars(")"),
        Chars("    (property \"Reference\" \"H") \o Dec(i + 1) \o Chars("\""),
        Chars("      (at 0 -3 0)"),
        Chars("      (layer \"F.SilkS\")"),
        Chars("      (uuid \"") \o generate_uuid(u + 2) \o Chars("\")"),
        Chars("      (effects (font (size 0.8 0.8) (thickness 0.12)))"),
        Chars("    )"),
        Chars("    (property \"Value\" \"MountingHole\""),
        Chars("      (at 0 3 0)"),
        Chars("      (layer \"F.Fab\")"),
        Chars("      (uuid \"") \o generate_uuid(u + 3) \o Chars("\")"),
        Chars("      (effects (font (size 0.8 0.8) (thickness 0.12)))"),
        Chars("    )"),
        Chars("    (property \"Footprint\" \"MountingHole:MountingHole_3.2mm_M3\""),
        Chars("      (at 0 0 0)"),
        Chars("      (layer \"F.Fab\")"),
        Chars("      (hide yes)"),
        Chars("      (uuid \"") \o generate_uuid(u + 4) \o Chars("\")"),
        Chars("      (effects (font (size 1 1) (thickness 0.15)))"),
        Chars("    )"),
        Chars("    (pad \"1\" thru_hole circle"),
        Chars("      (at 0 0)"),
        Chars("      (size 6.4 6.4)"),
        Chars("      (drill 3.2)"),
        Chars("      (layers \"*.Cu\" \"*.Mask\")"),
        Chars("      (remove_unused_layers no)"),
        Chars("      (uuid \"") \o generate_uuid(u + 5) \o Chars("\")"),
        Chars("    )"),
        Chars("  )")
    >>)

\* one component footprint; fp_uuid, ref_uuid, val_uuid and fp_prop_uuid are calls u + 1 .. u + 4
component_footprint(comp, u) ==
    LET footprint == replace(comp.footprint, "\"", << "\\", "\"" >>)
    IN  Lines(<<
            << >>,
            Chars("  (footprint \"") \o footprint \o Chars("\""),
            Chars("    (layer \"") \o comp.layer \o Chars("\")"),
            Chars("    (uuid \"") \o generate_uuid(u + 1) \o Chars("\")"),
            Chars("    (at ") \o format_coord(comp.x) \o Chars(" ") \o format_coord(comp.y) \o Chars(" ") \o Dec(comp.rotation) \o Chars(")"),
            Chars("    (property \"Reference\" \"") \o comp.ref \o Chars("\""),
            Chars("      (at 0 -2 0)"),
            Chars("      (layer \"F.SilkS\")"),
            Chars("      (uuid \"") \o generate_uuid(u + 2) \o Chars("\")"),
            Chars("      (effects (font (size 0.8 0.8) (thickness 0.12)))"),
            Chars("    )"),
            Chars("    (property \"Value\" \"") \o comp.value \o Chars("\""),
            Chars("      (at 0 2 0)"),
            Chars("      (layer \"F.Fab\")"),
            Chars("      (uuid \"") \o generate_uuid(u + 3) \o Chars("\")"),
            Chars("      (effects (font (size 0.8 0.8) (thickness 0.12)))"),
            Chars("    )"),
            Chars("    (property \"Footprint\" \"") \o footprint \o Chars("\""),
            Chars("      (at 0 0 0)"),
            Chars("      (layer \"F.Fab\")"),
            Chars("      (hide yes)"),
            Chars("      (uuid \"") \o generate_uuid(u + 4) \o Chars("\")"),
            Chars("      (effects (font (size 1 1) (thickness 0.15)))"),
            Chars("    )"),
            Chars("  )")
        >>)

mount_offset == 4

mount_positions(width, height) ==
    << << mount_offset, mount_offset >>,
       << width - mount_offset, mount_offset >>,
       << mount_offset, height - mount_offset >>,
       << width - mount_offset, height - mount_offset >> >>

\* the component loop with the last identifier of a record used again as the
\* first of the next
component_sections_shared_id(comps, u) ==
    [k \in 1..Len(comps) |-> component_footprint(comps[k], u + 3 * (k - 1))]

\* the component loop with the records taken last to first
component_sections_reversed(comps, u) ==
    [k \in 1..Len(comps) |->
        component_footprint(comps[Len(comps) + 1 - k], u + 4 * (k - 1))]

\* for comp in components: sections.append(...), when u identifiers have been
\* handed out before the loop
component_sections(comps, u) ==
    [k \in 1..Len(comps) |-> component_footprint(comps[k], u + 4 * (k - 1))]

\* generate_pcb appending the outline after the footprints
generate_pcb_outline_last(comps, width, height, layers, u) ==
    LET layer_def == IF layers = 4 THEN layer_def_4 ELSE layer_def_2
        holes     == mount_positions(width, height)
        sections  ==
            << header(stackup_comment(width, height, layers), layer_def),
               net_section >>
            \o [i \in 1..Len(holes) |->
                  mounting_hole(i - 1, holes[i][1], holes[i][2], u + 1 + 5 * (i - 1))]
            \o component_sections(comps, u + 1 + 5 * Len(holes))
            \o << outline(width, height, generate_uuid(u + 1)),
                  Chars(")") >>
    IN  [text |-> Lines(sections),
         uuid_calls |-> u + 1 + 5 * Len(holes) + 4 * Len(comps)]

\* generate_pcb(components, board_width, board_height, num_layers) when u
\* identifiers have been handed out before: the text and the new count
generate_pcb(comps, width, height, layers, u) ==
    LET layer_def == IF layers = 4 THEN layer_def_4 ELSE layer_def_2
        holes     == mount_positions(width, height)
        sections  ==
            << header(stackup_comment(width, height, layers), layer_def),
               net_section,
               outline(width, height, generate_uuid(u + 1)) >>
            \o [i \in 1..Len(holes) |->
                  mounting_hole(i - 1, holes[i][1], holes[i][2], u + 1 + 5 * (i - 1))]
            \o component_sections(comps, u + 1 + 5 * Len(holes))
            \o << Chars(")") >>
    IN  [text |-> Lines(sections),
         uuid_calls |-> u + 1 + 5 * Len(holes) + 4 * Len(comps)]

\* all_components: the groups flattened in the order of the dict
RECURSIVE flatten(_, _, _)
flatten(comps, grps, g) ==
    IF g > Len(GroupNames) THEN << >>
    ELSE [k \in 1..Len(grps[GroupNames[g]]) |-> comps[grps[GroupNames[g]][k]]]
             \o flatten(comps, grps, g + 1)

all_components(comps, grps) == flatten(comps, grps, 1)

----------------------------------------------------------------------------
(* The layout stage on its own: main() from the extracted records on.      *)

MaxRun   == 32   \* longest run of consecutively numbered C references
MaxExtra == 2    \* longest list of references drawn freely from RefPool

\* references the classifier tells apart: both ends of both supercap ranges,
\* suffixes int() reads in more than one spelling or not at all, and at least
\* one reference for and against every rule of the if/elif chain
RefPool ==
    { Chars("C100"),
      Chars("C101"),
      Chars("C130"),
      Chars("C131"),
      Chars("C160"),
      Chars("C161"),
      Chars("C1"),
      << "C" >>,
      Chars("CX"),
      Chars("C0130"),
      Chars("C+131"),
      Chars("C1_01"),
      Chars("C-101"),
      Chars("C 160"),
      Chars("J1"),
      << "J" >>,
      Chars("U1"),
      Chars("U2"),
      Chars("U3"),
      Chars("U4"),
      Chars("U10"),
      Chars("Q1"),
      Chars("Q2"),
      Chars("Q3"),
      Chars("Q4"),
      Chars("Q5"),
      Chars("R11"),
      Chars("R12"),
      Chars("R1"),
      Chars("RV1"),
      Chars("D1"),
      Chars("LED1"),
      Chars("L1") }

RunStarts == { 95, 101, 125, 131, 155 }

\* the references C<start>, C<start+1>, ... (count of them) in one of three orders
RunRefs(start, count, order) ==
    LET asc == [k \in 1..count |-> << "C" >> \o Dec(start + k - 1)]
        odd == (count + 1) \div 2
    IN  CASE order = "asc"    -> asc
          [] order = "desc"   -> [k \in 1..count |-> asc[count + 1 - k]]
          [] order = "stride" -> [k \in 1..count |->
                                    IF k <= odd THEN asc[2 * k - 1] ELSE asc[2 * (k - odd)]]

\* a reference that ties with or sits between the references of a run
RunExtras == { Chars("C0115"), Chars("C1_40"), Chars("R1") }

CrowdedBank     == 66   \* records of the negative bank of the crowded input
CrowdedPassives == 9    \* passives of the crowded input

\* a crowded input: C131..C160, then the same numbers spelled with one and
\* with two leading zeros, then the passives R1, R2, ...
CrowdedRefs ==
    [k \in 1..CrowdedBank |->
        << "C" >> \o (IF k <= 30 THEN Dec(130 + k)
                      ELSE IF k <= 60 THEN << "0" >> \o Dec(100 + k)
                      ELSE << "0", "0" >> \o Dec(131 + ((k - 61) % 30)))]
      \o [k \in 1..CrowdedPassives |-> << "R" >> \o Dec(k)]

SeqsUpTo(S, n) == UNION { [1..k -> S] : k \in 0..n }

InputRefs ==
    { RunRefs(st, n, o) : st \in RunStarts, n \in 1..MaxRun, o \in { "asc", "desc", "stride" } }
    \cup { << e >> \o RunRefs(st, n, "desc") : e \in RunExtras, st \in RunStarts, n \in 1..MaxRun }
    \cup { RunRefs(st, n, "desc") \o << e >> : e \in RunExtras, st \in RunStarts, n \in 1..MaxRun }
    \cup SeqsUpTo(RefPool, MaxExtra)
    \cup { CrowdedRefs }

\* the two board configurations of main()
BoardConfigs ==
    { [compact |-> TRUE,  board_width |-> 160, board_height |-> 100, num_layers |-> 4],
      [compact |-> FALSE, board_width |-> 200, board_height |-> 120, num_layers |-> 2] }

InitLayout ==
    /\ pc = "parsed"
    /\ \E refs \in InputRefs :
          components = [k \in 1..Len(refs) |->
                          Component(refs[k], Chars("10k"), Chars("FP"), Chars("D:R"))]
    /\ \E cfg \in BoardConfigs :
          /\ compact = cfg.compact
          /\ board_width = cfg.board_width
          /\ board_height = cfg.board_height
          /\ num_layers = cfg.num_layers
    /\ groups = empty_groups
    /\ plan = << >>
    /\ text = << >>
    /\ tokens = << >>
    /\ pos = 0
    /\ doc = NoNode
    /\ pcb_content = << >>
    /\ uuid_calls = 0

\* groups = group_components(components)
GroupComponents ==
    /\ pc = "parsed"
    /\ groups' = group_components(components)
    /\ pc' = "grouped"
    /\ UNCHANGED << plan, text, tokens, pos, doc, components, compact, board_width,
                    board_height, num_layers, pcb_content, uuid_calls >>

\* place_components(groups, board_width, board_height, compact=compact)
PlaceComponents ==
    /\ pc = "grouped"
    /\ components' = place_components(components, groups, board_width, board_height, compact)
    /\ groups' = placed_groups(components, groups)
    /\ pc' = "placed"
    /\ UNCHANGED << plan, text, tokens, pos, doc, compact, board_width,
                    board_height, num_layers, pcb_content, uuid_calls >>

\* what the records may hold when place_components is called a second time
HeldBefore == { "as placed", "moved" }

Held(c, h) ==
    CASE h = "as placed" -> c
      [] h = "moved"     -> [c EXCEPT !.x = c.y + 1, !.y = 0 - c.x, !.rotation = 90]

\* a second place_components(groups, board_width, board_height, compact=compact)
\* on the same groups
PlaceAgain ==
    /\ pc = "placed"
    /\ \E h \in HeldBefore :
          components' = place_components([c \in DOMAIN components |-> Held(components[c], h)],
                                         groups, board_width, board_height, compact)
    /\ groups' = placed_groups(components, groups)
    /\ pc' = "placed again"
    /\ UNCHANGED << plan, text, tokens, pos, doc, compact, board_width,
                    board_height, num_layers, pcb_content, uuid_calls >>

\* a second group_components(components) on the records as they are after
\* placement
GroupAgain ==
    /\ pc = "placed"
    /\ groups' = group_components(components)
    /\ pc' = "grouped again"
    /\ UNCHANGED << plan, text, tokens, pos, doc, components, compact, board_width,
                    board_height, num_layers, pcb_content, uuid_calls >>

NextLayout == GroupComponents \/ PlaceComponents \/ PlaceAgain \/ GroupAgain

SpecLayout == InitLayout /\ [][NextLayout]_vars

----------------------------------------------------------------------------
(* The extraction stage on its own: parse_schematic(schematic_path) applied *)
(* to schematic files built from a pool of root children.                   *)

MaxChildren == 2

S_D_R       == Chars("D:R")
S_power_GND == Chars("power:GND")
S_FP        == Chars("FP")
S_at_0_0    == Chars("(at 0 0)")

RECURSIVE Words(_)
Words(items) == IF items = << >> THEN << >> ELSE << " " >> \o Head(items) \o Words(Tail(items))

\* the text "(tag item item ...)"
Form(tag, items) == << "(" >> \o tag \o Words(items) \o << ")" >>

Quoted(s) == << "\"" >> \o s \o << "\"" >>

T_lib_id(a)         == Form(S_lib_id, << Quoted(a) >>)
T_property(name, v) == Form(S_property, << Quoted(name), Quoted(v) >>)
T_reference(d)      == Form(S_property, << Quoted(S_Reference), Quoted(<< "R" >> \o d), S_at_0_0 >>)
T_value(d)          == T_property(S_Value, d)
T_footprint         == T_property(S_Footprint, S_FP)
T_body(d)           == << T_reference(d), T_value(d), T_footprint >>

\* the text of one root child of the given kind; d is the serial that tells
\* the symbols of a document apart (it is the symbol's Value)
KindText(kind, d) ==
    CASE kind = "plain" ->
            Form(S_symbol, << T_lib_id(S_D_R) >> \o T_body(d))
      [] kind = "power" ->
            Form(S_symbol, << T_lib_id(S_power_GND) >> \o T_body(d))
      [] kind = "no_lib_id" ->
            Form(S_symbol, T_body(d))
      [] kind = "empty_lib_id" ->
            Form(S_symbol, << T_lib_id(<< >>) >> \o T_body(d))
      [] kind = "bare_then_lib_id" ->
            Form(S_symbol, << Form(S_lib_id, << >>), T_lib_id(S_D_R) >> \o T_body(d))
      [] kind = "power_then_lib_id" ->
            Form(S_symbol, << T_lib_id(S_power_GND), T_lib_id(S_D_R) >> \o T_body(d))
      [] kind = "lib_id_then_power" ->
            Form(S_symbol, << T_lib_id(S_D_R), T_lib_id(S_power_GND) >> \o T_body(d))
      [] kind = "node_before_atom" ->
            Form(S_symbol, << Form(S_lib_id, << S_at_0_0, Quoted(S_D_R) >>) >> \o T_body(d))
      [] kind = "no_footprint" ->
            Form(S_symbol, << T_lib_id(S_D_R), T_reference(d), T_value(d) >>)
      [] kind = "empty_footprint" ->
            Form(S_symbol, << T_lib_id(S_D_R), T_reference(d), T_value(d),
                              T_property(S_Footprint, << >>) >>)
      [] kind = "no_reference" ->
            Form(S_symbol, << T_lib_id(S_D_R), T_value(d), T_footprint >>)
      [] kind = "reference_then_empty" ->
            Form(S_symbol, << T_lib_id(S_D_R) >> \o T_body(d)
                              \o << T_property(S_Reference, << >>) >>)
      [] kind = "empty_then_footprint" ->
            Form(S_symbol, << T_lib_id(S_D_R), T_reference(d), T_value(d),
                              T_property(S_Footprint, << >>), T_footprint >>)
      [] kind = "one_atom_property" ->
            Form(S_symbol, << T_lib_id(S_D_R) >> \o T_body(d)
                              \o << Form(S_property, << Quoted(S_Footprint) >>) >>)
      [] kind = "unquoted" ->
            Form(S_symbol, << Form(S_lib_id, << S_D_R >>),
                              Form(S_property, << S_Reference, << "R" >> \o d >>),
                              Form(S_property, << S_Value, d >>),
                              Form(S_property, << S_Footprint, S_FP >>) >>)
      [] kind = "in_lib_symbols" ->
            Form(S_lib_symbols, << Form(S_symbol, << T_lib_id(S_D_R) >> \o T_body(d)) >>)
      [] kind = "in_sheet" ->
            Form(Chars("sheet"),
                 << Form(S_symbol, << T_lib_id(S_D_R) >> \o T_body(d)) >>)
      [] kind = "in_symbol" ->
            Form(S_symbol, << T_lib_id(S_D_R) >> \o T_body(d)
                 \o << Form(S_symbol, << T_lib_id(S_D_R),
                                         T_property(S_Reference, << "N" >> \o d),
                                         T_property(S_Value, << "N" >> \o d),
                                         T_footprint >>) >>)
      [] kind = "escaped_footprint" ->
            Form(S_symbol, << T_lib_id(S_D_R), T_reference(d), T_value(d),
                              T_property(S_Footprint, Chars("A\\\"B")) >>)
      [] kind = "escaped_reference" ->
            Form(S_symbol, << T_lib_id(S_D_R),
                              T_property(S_Reference, Chars("R\\\"") \o d),
                              T_value(d), T_footprint >>)
      [] kind = "escaped_value" ->
            Form(S_symbol, << T_lib_id(S_D_R), T_reference(d),
                              T_property(S_Value, d \o Chars("\\\"k")), T_footprint >>)
      [] kind = "bare_backslash_reference" ->
            Form(S_symbol, << T_lib_id(S_D_R),
                              Form(S_property, << S_Reference, << "R" >> \o d \o Chars("\\") >>),
                              T_value(d), T_footprint >>)
      [] kind = "reference_twice" ->
            Form(S_symbol, << T_lib_id(S_D_R),
                              T_property(S_Reference, << "X" >> \o d) >> \o T_body(d))
      [] kind = "value_then_empty" ->
            Form(S_symbol, << T_lib_id(S_D_R) >> \o T_body(d)
                              \o << T_property(S_Value, << >>) >>)
      [] kind = "supercap" ->
            Form(S_symbol, << T_lib_id(S_D_R),
                              T_property(S_Reference, Chars("C10") \o d),
                              T_value(d), T_footprint >>)
      [] kind = "mosfet" ->
            Form(S_symbol, << T_lib_id(S_D_R),
                              T_property(S_Reference, << "Q" >> \o d),
                              T_value(d), T_footprint >>)
      [] kind = "atom" ->
            S_symbol
      [] kind = "wire" ->
            Form(Chars("wire"), << Chars("(pts 0 0)") >>)

Kinds == { "plain", "power", "no_lib_id", "empty_lib_id", "bare_then_lib_id",
           "power_then_lib_id", "lib_id_then_power", "node_before_atom",
           "no_footprint", "empty_footprint", "no_reference", "reference_then_empty",
           "empty_then_footprint", "one_atom_property", "unquoted", "in_lib_symbols",
           "in_sheet", "in_symbol", "escaped_footprint", "escaped_reference",
           "escaped_value", "bare_backslash_reference", "reference_twice",
           "value_then_empty", "supercap", "mosfet", "atom", "wire" }

\* the schematic file: a kicad_sch form holding a version and the planned children
Render(p) ==
    Form(Chars("kicad_sch"),
         << Chars("(version 1)") >>
            \o [k \in 1..Len(p) |-> KindText(p[k], Dec(k))])

Plans == SeqsUpTo(Kinds, MaxChildren)

InitParse ==
    /\ pc = "start"
    /\ plan \in Plans
    /\ text = Render(plan)
    /\ tokens = << >>
    /\ pos = 0
    /\ doc = NoNode
    /\ components = << >>
    /\ groups = empty_groups
    /\ compact = TRUE
    /\ board_width = 160
    /\ board_height = 100
    /\ num_layers = 4
    /\ pcb_content = << >>
    /\ uuid_calls = 0

\* components = parse_schematic(schematic_path): parse_file reads the text and
\* parses it, the loop over doc.children collects the records
ParseSchematic ==
    /\ pc = "start"
    /\ LET parsed == parse_sexp(text)
       IN  /\ tokens' = parsed.tokens
           /\ pos' = parsed.pos
           /\ doc' = parsed.node
           /\ components' = parse_schematic(parsed.node)
    /\ pc' = "parsed"
    /\ UNCHANGED << plan, text, groups, compact, board_width, board_height,
                    num_layers, pcb_content, uuid_calls >>

NextParse == ParseSchematic

SpecParse == InitParse /\ [][NextParse]_vars

----------------------------------------------------------------------------
(* The reader on its own: parse_sexp(text) in its two steps, on short texts *)
(* over the characters the tokenizer tells apart and on forms cut off after *)
(* any number of tokens.                                                    *)

MaxText == 5   \* longest text drawn freely from TextChars
MaxKids == 2   \* most children of a node of a drawn form

TextChars == { "(", ")", "\"", "\\", " ", "\f", "a" }

Texts == SeqsUpTo(TextChars, MaxText)

Atom_a == SExp(<< >>, << >>, << "a" >>)

\* nodes tagged n over the given children
NodesOver(kids) == { SExp(<< "n" >>, c, None) : c \in SeqsUpTo(kids, MaxKids) }

Level1 == NodesOver({ Atom_a })
Level2 == NodesOver({ Atom_a } \cup Level1)
Level3 == { SExp(<< "n" >>, << c >>, None) : c \in Level2 }
              \cup { SExp(<< "n" >>, << c, Atom_a >>, None) : c \in Level2 }

Forms == Level1 \cup Level2 \cup Level3

\* the tokens of a form as a text holds them
RECURSIVE TokensOf(_), TokensOfAll(_)
TokensOf(t) ==
    IF t.value # None THEN << t.value >>
    ELSE << LPAREN, t.tag >> \o TokensOfAll(t.children) \o << RPAREN >>

TokensOfAll(ts) == IF ts = << >> THEN << >> ELSE TokensOf(Head(ts)) \o TokensOfAll(Tail(ts))

\* the text of the first n tokens of a form, one blank between tokens
CutText(t, n) == join(<< " " >>, SubSeq(TokensOf(t), 1, n))

\* what may follow a whole form in a text
Trailers == { Chars(" a"), Chars(" (n a) a"), Chars(")"), Chars("("), Chars("(n") }

InitSexp ==
    /\ pc = "start"
    /\ \/ /\ text \in Texts
          /\ plan = << "text" >>
       \/ \E t \in Forms : \E n \in 1..Len(TokensOf(t)) :
             /\ text = CutText(t, n)
             /\ plan = << "form", t, n >>
       \/ \E t \in Forms : \E trailer \in Trailers :
             /\ text = CutText(t, Len(TokensOf(t))) \o trailer
             /\ plan = << "lead", t, trailer >>
    /\ tokens = << >>
    /\ pos = 0
    /\ doc = NoNode
    /\ components = << >>
    /\ groups = empty_groups
    /\ compact = TRUE
    /\ board_width = 160
    /\ board_height = 100
    /\ num_layers = 4
    /\ pcb_content = << >>
    /\ uuid_calls = 0

\* tokens = tokenize(text)
Tokenize ==
    /\ pc = "start"
    /\ tokens' = tokenize(text)
    /\ pc' = "tokenized"
    /\ UNCHANGED << plan, text, pos, doc, components, groups, compact, board_width,
                    board_height, num_layers, pcb_content, uuid_calls >>

\* pos = [0]; return parse_tokens(tokens, pos)
ParseTokens ==
    /\ pc = "tokenized"
    /\ LET r == parse_tokens(tokens, 0)
       IN  /\ doc' = r.node
           /\ pos' = r.pos
    /\ pc' = "tree"
    /\ UNCHANGED << plan, text, tokens, components, groups, compact, board_width,
                    board_height, num_layers, pcb_content, uuid_calls >>

NextSexp == Tokenize \/ ParseTokens

SpecSexp == InitSexp /\ [][NextSexp]_vars

----------------------------------------------------------------------------
(* The reader step by step: one action per pass of the loop of tokenize and *)
(* per pass of the loops of parse_tokens.  pos is the index i of tokenize    *)
(* and then the cursor pos[0]; plan holds the nodes that the parse_tokens    *)
(* calls in progress are building, the innermost call last.                  *)

MaxStepText == 3   \* longest text drawn freely from TextChars for the steps

\* the short texts, and the drawn forms whole and cut
StepTexts ==
    SeqsUpTo(TextChars, MaxStepText)
      \cup { CutText(t, Len(TokensOf(t))) : t \in Forms }
      \cup { CutText(t, Len(TokensOf(t)) - 1) : t \in Forms }

InitSteps ==
    /\ pc = "scanning"
    /\ text \in StepTexts
    /\ plan = << >>
    /\ tokens = << >>
    /\ pos = 0
    /\ doc = NoNode
    /\ components = << >>
    /\ groups = empty_groups
    /\ compact = TRUE
    /\ board_width = 160
    /\ board_height = 100
    /\ num_layers = 4
    /\ pcb_content = << >>
    /\ uuid_calls = 0

\* one pass of `while i < len(text)`
TokenizeStep ==
    /\ pc = "scanning"
    /\ pos < Len(text)
    /\ LET st == tokenize_body(text, [i |-> pos, tokens |-> tokens])
       IN  /\ pos' = st.i
           /\ tokens' = st.tokens
    /\ UNCHANGED << pc, plan, text, doc, components, groups, compact, board_width,
                    board_height, num_layers, pcb_content, uuid_calls >>

\* `return tokens`, then `pos = [0]` of parse_sexp
TokenizeReturn ==
    /\ pc = "scanning"
    /\ ~(pos < Len(text))
    /\ pos' = 0
    /\ pc' = "tokens"
    /\ UNCHANGED << plan, text, tokens, doc, components, groups, compact, board_width,
                    board_height, num_layers, pcb_content, uuid_calls >>

\* the call parse_tokens(tokens, pos) of parse_sexp up to its loop or its return
ParseCall ==
    /\ pc = "tokens"
    /\ IF pos >= Len(tokens)
       THEN /\ doc' = SExp(<< >>, << >>, None)
            /\ UNCHANGED << pos, plan >>
            /\ pc' = "done"
       ELSE IF tokens[pos + 1] = LPAREN
       THEN IF pos + 1 >= Len(tokens)
            THEN /\ doc' = SExp(<< >>, << >>, None)
                 /\ pos' = pos + 1
                 /\ UNCHANGED plan
                 /\ pc' = "done"
            ELSE /\ plan' = << SExp(tokens[pos + 2], << >>, None) >>
                 /\ pos' = pos + 2
                 /\ UNCHANGED doc
                 /\ pc' = "building"
       ELSE /\ doc' = SExp(<< >>, << >>, tokens[pos + 1])
            /\ pos' = pos + 1
            /\ UNCHANGED plan
            /\ pc' = "done"
    /\ UNCHANGED << text, tokens, components, groups, compact, board_width,
                    board_height, num_layers, pcb_content, uuid_calls >>

\* one pass of the loop of the innermost parse_tokens call, or its return
ParseStep ==
    /\ pc = "building"
    /\ LET st == parse_body(tokens, [stack |-> plan, pos |-> pos, node |-> doc])
       IN  /\ plan' = st.stack
           /\ pos' = st.pos
           /\ doc' = st.node
           /\ pc' = IF st.stack = << >> THEN "done" ELSE "building"
    /\ UNCHANGED << text, tokens, components, groups, compact, board_width,
                    board_height, num_layers, pcb_content, uuid_calls >>

NextSteps == TokenizeStep \/ TokenizeReturn \/ ParseCall \/ ParseStep

SpecSteps == InitSteps /\ [][NextSteps]_vars

\* the loops go on as long as they can: nothing but their own conditions
\* stops them
SpecStepsFair == SpecSteps /\ WF_vars(NextSteps)

----------------------------------------------------------------------------
(* The serializer on its own: generate_pcb applied to records, placed as    *)
(* main() places them or handed over as the extractor made them, and the    *)
(* written text read back with parse_sexp.                                  *)

MaxRecs == 2

\* the strings of a record: what parse_schematic can hand over (a token keeps
\* its backslashes and line breaks, and a quote only behind a backslash) and,
\* for a direct call of generate_pcb, a name with a plain quote
RecordShapes ==
    { [ref |-> Chars("R1"),   value |-> Chars("10k"),  footprint |-> Chars("Lib:FP")],
      [ref |-> Chars("U1"),   value |-> Chars("10k"),  footprint |-> Chars("A\"B")],
      [ref |-> Chars("Q1"),   value |-> Chars("10k"),  footprint |-> Chars("A\\\"B")],
      [ref |-> Chars("R\\"),  value |-> Chars("10k"),  footprint |-> Chars("FP")],
      [ref |-> Chars("J1"),   value |-> Chars("V\\"),  footprint |-> Chars("FP")],
      [ref |-> Chars("C101"), value |-> Chars("1 (F)"), footprint |-> Chars("FP")],
      [ref |-> Chars("("),    value |-> Chars("10k"),  footprint |-> Chars("FP")],
      [ref |-> Chars("R2"),   value |-> Chars("1\n  (footprint \\\"X"),
                                                       footprint |-> Chars("FP")] }

InputRecords ==
    { [k \in 1..Len(shapes) |->
         Component(shapes[k].ref, shapes[k].value, shapes[k].footprint, S_D_R)] :
      shapes \in SeqsUpTo(RecordShapes, MaxRecs) }

InitBoard ==
    /\ pc \in { "placed", "unplaced" }
    /\ \E cfg \in BoardConfigs :
          /\ compact = cfg.compact
          /\ board_width = cfg.board_width
          /\ board_height = cfg.board_height
          /\ num_layers = cfg.num_layers
    /\ \E recs \in InputRecords :
          /\ groups = placed_groups(recs, group_components(recs))
          /\ components = IF pc = "placed"
                          THEN place_components(recs, group_components(recs),
                                                board_width, board_height, compact)
                          ELSE recs
    /\ plan = << >>
    /\ text = << >>
    /\ tokens = << >>
    /\ pos = 0
    /\ doc = NoNode
    /\ pcb_content = << >>
    /\ uuid_calls = 0

\* pcb_content = generate_pcb(all_components, board_width, board_height,
\* num_layers=num_layers); pcb_path.write_text(pcb_content)
\* (main() gets here with pc = "placed"; "unplaced" is a caller that skipped
\* place_components)
GeneratePcb ==
    /\ pc \in { "placed", "unplaced" }
    /\ LET written == generate_pcb(all_components(components, groups),
                                   board_width, board_height, num_layers, uuid_calls)
       IN  /\ pcb_content' = written.text
           /\ uuid_calls' = written.uuid_calls
    /\ pc' = "written"
    /\ UNCHANGED << plan, text, tokens, pos, doc, components, groups, compact,
                    board_width, board_height, num_layers >>

\* parse_sexp applied to the board text
ParseBoard ==
    /\ pc = "written"
    /\ LET parsed == parse_sexp(pcb_content)
       IN  /\ tokens' = parsed.tokens
           /\ pos' = parsed.pos
           /\ doc' = parsed.node
    /\ pc' = "reread"
    /\ UNCHANGED << plan, text, components, groups, compact, board_width,
                    board_height, num_layers, pcb_content, uuid_calls >>

NextBoard == GeneratePcb \/ ParseBoard

SpecBoard == InitBoard /\ [][NextBoard]_vars

----------------------------------------------------------------------------
(* main(): parse, group, place, generate.                                   *)

PipelineKinds == { "plain", "power", "unquoted", "in_lib_symbols", "escaped_footprint",
                   "escaped_reference", "escaped_value", "bare_backslash_reference",
                   "supercap", "mosfet" }

Init ==
    /\ pc = "start"
    /\ plan \in SeqsUpTo(PipelineKinds, MaxChildren)
    /\ text = Render(plan)
    /\ \E cfg \in BoardConfigs :
          /\ compact = cfg.compact
          /\ board_width = cfg.board_width
          /\ board_height = cfg.board_height
          /\ num_layers = cfg.num_layers
    /\ tokens = << >>
    /\ pos = 0
    /\ doc = NoNode
    /\ components = << >>
    /\ groups = empty_groups
    /\ pcb_content = << >>
    /\ uuid_calls = 0

Next == ParseSchematic \/ GroupComponents \/ PlaceComponents \/ GeneratePcb

Spec == Init /\ [][Next]_vars

----------------------------------------------------------------------------
(* Properties of the classifier and the layout engine *)

GroupSet == { GroupNames[k] : k \in 1..Len(GroupNames) }

Grouped == pc \in { "grouped", "placed" }

\* how often the object c occurs in the list lst
Occurrences(lst, c) == Cardinality({ k \in 1..Len(lst) : lst[k] = c })

\* the groups that hold the object c
GroupsOf(c) == { g \in GroupSet : Occurrences(groups[g], c) > 0 }

ListSum(f, S) ==
    LET RECURSIVE Sum(_)
        Sum(T) == IF T = {} THEN 0
                  ELSE LET t == CHOOSE t \in T : TRUE IN f[t] + Sum(T \ { t })
    IN  Sum(S)

\* C1: group_components returns nine groups that partition the input: every
\* record is in exactly one group, exactly once there, and the nine sizes add
\* up to the number of records.
C1_GroupsPartitionInput ==
    Grouped =>
        /\ DOMAIN groups = GroupSet
        /\ Cardinality(GroupSet) = 9
        /\ \A g \in GroupSet : \A k \in 1..Len(groups[g]) : groups[g][k] \in 1..Len(components)
        /\ \A c \in 1..Len(components) :
              /\ Cardinality(GroupsOf(c)) = 1
              /\ \A g \in GroupsOf(c) : Occurrences(groups[g], c) = 1
        /\ ListSum([g \in GroupSet |-> Len(groups[g])], GroupSet) = Len(components)

\* a classified input that fills both banks and a group of the if/elif chain
C1_Witness ==
    /\ pc = "grouped"
    /\ Len(groups["supercap_pos"]) >= 2
    /\ Len(groups["supercap_neg"]) >= 2
    /\ Len(groups["passives"]) >= 1

\* the reference is C followed by an integer (as int() reads it)
IsCInteger(ref) == Len(ref) > 1 /\ ref[1] = "C" /\ py_int(Tail(ref)).ok

InGroup(c, g) == \E k \in 1..Len(groups[g]) : groups[g][k] = c

HasRef(c, r) == components[c].ref = r

\* C2: a record C<N> is in supercap_pos exactly when 101 <= N <= 130 and in
\* supercap_neg exactly when 131 <= N <= 160; C130 is in supercap_pos, C131 in
\* supercap_neg, C100 and C161 in neither.
C2_SupercapRanges ==
    Grouped =>
        \A c \in 1..Len(components) :
            /\ IsCInteger(components[c].ref) =>
                 LET N == py_int(Tail(components[c].ref)).val
                 IN  /\ InGroup(c, "supercap_pos") <=> (101 <= N /\ N <= 130)
                     /\ InGroup(c, "supercap_neg") <=> (131 <= N /\ N <= 160)
            /\ HasRef(c, Chars("C130")) => InGroup(c, "supercap_pos")
            /\ HasRef(c, Chars("C131")) => InGroup(c, "supercap_neg")
            /\ HasRef(c, Chars("C100")) \/ HasRef(c, Chars("C161"))
                 => ~InGroup(c, "supercap_pos") /\ ~InGroup(c, "supercap_neg")

\* C130 and C131 classified side by side
C2_Witness ==
    /\ pc = "grouped"
    /\ \E c, d \in 1..Len(components) :
          /\ HasRef(c, Chars("C130")) /\ InGroup(c, "supercap_pos")
          /\ HasRef(d, Chars("C131")) /\ InGroup(d, "supercap_neg")

\* the rules of the claim, in its order: << prefix or exact, text, group >>
ClaimRules ==
    << << "prefix", << "J" >>, "connectors" >>,
       << "exact",  Chars("U1"), "mcu" >>,
       << "exact",  Chars("U2"), "sensing" >>,
       << "exact",  Chars("U3"), "power" >>,
       << "exact",  Chars("U4"), "sensing" >>,
       << "exact",  Chars("Q1"), "discharge" >>,
       << "exact",  Chars("Q2"), "discharge" >>,
       << "exact",  Chars("Q3"), "charging" >>,
       << "exact",  Chars("Q4"), "charging" >>,
       << "exact",  Chars("R11"), "charging" >>,
       << "exact",  Chars("R12"), "charging" >>,
       << "prefix", Chars("RV"), "connectors" >>,
       << "prefix", << "D" >>, "passives" >>,
       << "prefix", Chars("LED"), "passives" >> >>

RuleMatches(rule, ref) ==
    IF rule[1] = "exact" THEN ref = rule[2]
    ELSE Len(ref) >= Len(rule[2]) /\ \A k \in 1..Len(rule[2]) : ref[k] = rule[2][k]

FirstRuleGroup(ref) ==
    IF \E r \in 1..Len(ClaimRules) : RuleMatches(ClaimRules[r], ref)
    THEN LET r == CHOOSE r \in 1..Len(ClaimRules) :
                    /\ RuleMatches(ClaimRules[r], ref)
                    /\ \A q \in 1..(r - 1) : ~RuleMatches(ClaimRules[q], ref)
         IN  ClaimRules[r][3]
    ELSE "passives"

\* C3: a record the supercap rule did not take is in the group of the first
\* rule of the list that matches its reference, and in passives when none
\* does; R1 is in passives.
C3_FirstMatchingRule ==
    Grouped =>
        \A c \in 1..Len(components) :
            /\ ~InGroup(c, "supercap_pos") /\ ~InGroup(c, "supercap_neg")
                 => InGroup(c, FirstRuleGroup(components[c].ref))
            /\ HasRef(c, Chars("R1")) => InGroup(c, "passives")

\* an exact rule and a prefix rule applied in one classification
C3_Witness ==
    /\ pc = "grouped"
    /\ \E c, d \in 1..Len(components) :
          /\ HasRef(c, Chars("U3")) /\ InGroup(c, "power")
          /\ HasRef(d, Chars("RV1")) /\ InGroup(d, "connectors")

\* the origin of a bank's grid and its pitch, per policy
BankOrigin(is_compact, bank) ==
    IF is_compact
    THEN IF bank = "supercap_pos" THEN [x |-> 12, y |-> 12] ELSE [x |-> 12, y |-> 49]
    ELSE IF bank = "supercap_pos" THEN [x |-> 30, y |-> 20] ELSE [x |-> 30, y |-> 66]

BankPitch(is_compact) == IF is_compact THEN 11 ELSE 12

NumKey(c) == py_int(Tail(components[c].ref)).val

\* C10: each supercap bank is placed in ascending order of the numeric
\* suffix; the record at index i of that order is at
\* (origin_x + (i mod 10) * pitch, origin_y + (i div 10) * pitch), rotation 0,
\* pitch 11 (compact) or 12 (standard), for both banks alike.  Records with
\* equal suffixes share a range of indices and take one each.
C10_SupercapGrid ==
    pc = "placed" =>
        \A bank \in { "supercap_pos", "supercap_neg" } :
            LET members == { groups[bank][k] : k \in 1..Len(groups[bank]) }
                o == BankOrigin(compact, bank)
                p == BankPitch(compact)
                At(c, i) == /\ components[c].x = o.x + (i % 10) * p
                            /\ components[c].y = o.y + (i \div 10) * p
            IN  /\ Bind([c \in members |-> NumKey(c)], LAMBDA key :
                      \A c \in members :
                          LET below == Cardinality({ d \in members : key[d] < key[c] })
                              upto  == Cardinality({ d \in members : key[d] <= key[c] })
                          IN  /\ \E i \in below..(upto - 1) : At(c, i)
                              /\ components[c].rotation = 0)
                /\ \A c, d \in members :
                      c # d => << components[c].x, components[c].y >>
                                 # << components[d].x, components[d].y >>

\* a bank of more than two rows, placed from an input that was not in order
C10_Witness ==
    /\ pc = "placed"
    /\ Len(groups["supercap_pos"]) >= 21
    /\ NumKey(groups["supercap_pos"][1]) > NumKey(groups["supercap_pos"][2])
    /\ Len(groups["supercap_neg"]) >= 1

\* C11: after place_components, in either policy, every record of every
\* group has a rotation in {0, 90, 180, 270}: 270 in the discharge group and
\* 0 in every other group.
C11_Rotations ==
    pc = "placed" =>
        \A g \in GroupSet : \A k \in 1..Len(groups[g]) :
            /\ components[groups[g][k]].rotation \in { 0, 90, 180, 270 }
            /\ components[groups[g][k]].rotation = (IF g = "discharge" THEN 270 ELSE 0)

\* a placed input with a discharge record next to a record of another group
C11_Witness ==
    /\ pc = "placed"
    /\ Len(groups["discharge"]) >= 1
    /\ components[groups["discharge"][1]].rotation = 270
    /\ \E g \in GroupSet \ { "discharge" } :
          Len(groups[g]) >= 1 /\ components[groups[g][1]].rotation = 0

\* C19: a second run of place_components on the same groups assigns every
\* record the (x, y, rotation) the first run assigned, whatever the records
\* held before the second run.
C19_PlacementRepeatable ==
    [][ (pc = "placed" /\ pc' = "placed again") =>
            /\ Len(components') = Len(components)
            /\ \A c \in 1..Len(components) :
                  << components'[c].x, components'[c].y, components'[c].rotation >>
                      = << components[c].x, components[c].y, components[c].rotation >>
      ]_vars

\* placed twice: a bank of more than one row from an input that was not in
\* order
C19_Witness ==
    /\ pc = "placed again"
    /\ Len(groups["supercap_pos"]) >= 12
    /\ NumKey(groups["supercap_pos"][1]) > NumKey(groups["supercap_pos"][2])
    /\ \E j, k \in 1..Len(groups["supercap_pos"]) :
          components[groups["supercap_pos"][j]].y # components[groups["supercap_pos"][k]].y

\* the list keeps the order of the input: the objects it holds come in the
\* order of their creation, none of them twice
InInputOrder(lst) == \A j, k \in 1..Len(lst) : j < k => lst[j] < lst[k]

\* C20: every group group_components returns holds its records in the
\* relative order of the input, and place_components leaves every group's
\* list as it is (the supercap sort works on a copy).
C20_GroupOrderKept ==
    [][ /\ (pc = "parsed" /\ pc' = "grouped") =>
              \A g \in GroupSet : InInputOrder(groups'[g])
        /\ (pc = "grouped" /\ pc' = "placed") => groups' = groups
        /\ (pc = "placed" /\ pc' = "placed again") => groups' = groups
      ]_vars

\* a bank that was placed in sorted order from a list that is not sorted
C20_Witness ==
    /\ pc = "placed"
    /\ Len(groups["supercap_pos"]) >= 3
    /\ InInputOrder(groups["supercap_pos"])
    /\ NumKey(groups["supercap_pos"][1]) > NumKey(groups["supercap_pos"][2])
    /\ components[groups["supercap_pos"][1]].x > components[groups["supercap_pos"][2]].x

----------------------------------------------------------------------------
(* Properties of the schematic extractor *)

Min(S) == CHOOSE m \in S : \A n \in S : m <= n
Max(S) == CHOOSE m \in S : \A n \in S : m >= n

\* the positions of the atoms among a node's children, and the j-th atom
AtomIdx(n) == { i \in 1..Len(n.children) : n.children[i].value # None }
NthAtom(n, j) ==
    n.children[CHOOSE i \in AtomIdx(n) : Cardinality({ m \in AtomIdx(n) : m < i }) = j - 1].value

ChildrenTagged(n, tag) == { i \in 1..Len(n.children) : n.children[i].tag = tag }

\* the child is a lib_id form whose first atom is non-empty and does not start
\* with "power:"
AcceptedLibId(n) ==
    /\ n.tag = S_lib_id
    /\ AtomIdx(n) # { }
    /\ NthAtom(n, 1) # << >>
    /\ ~startswith(NthAtom(n, 1), S_power)

AnyLibIdAccepted(sym) ==
    \E i \in ChildrenTagged(sym, S_lib_id) : AcceptedLibId(sym.children[i])

FirstLibIdAccepted(sym) ==
    /\ ChildrenTagged(sym, S_lib_id) # { }
    /\ AcceptedLibId(sym.children[Min(ChildrenTagged(sym, S_lib_id))])

\* the value a symbol ends up with for a property name: that of the last
\* property child naming it with at least two atoms, else empty
FinalValue(sym, name) ==
    LET P == { i \in ChildrenTagged(sym, S_property) :
                 /\ Cardinality(AtomIdx(sym.children[i])) >= 2
                 /\ NthAtom(sym.children[i], 1) = name }
    IN  IF P = { } THEN << >> ELSE NthAtom(sym.children[Max(P)], 2)

HasRefAndFootprint(sym) ==
    FinalValue(sym, S_Reference) # << >> /\ FinalValue(sym, S_Footprint) # << >>

\* the records a symbol produced: those carrying its reference and its serial
RecordsOf(sym) ==
    { r \in 1..Len(components) :
        /\ components[r].value = FinalValue(sym, S_Value)
        /\ components[r].ref = FinalValue(sym, S_Reference) }

Extracted == pc = "parsed" /\ doc # NoNode

RootSymbols == ChildrenTagged(doc, S_symbol)

\* C4 (as amended): after parse_schematic, a symbol that is a direct child of
\* the root has a record exactly when its first lib_id child has a first atom
\* that is non-empty and does not start with "power:" and the Reference and
\* Footprint values it ends up with are both non-empty.
C4_RecordIffFirstLibId ==
    Extracted =>
        \A k \in RootSymbols :
            LET sym == doc.children[k]
            IN  RecordsOf(sym) # { } <=> (FirstLibIdAccepted(sym) /\ HasRefAndFootprint(sym))

\* C4 as stated: a record exactly when some lib_id child of the symbol has a
\* first atom that is non-empty and does not start with "power:" (and the
\* Reference and Footprint are non-empty).
C4_RecordIffSomeLibId ==
    Extracted =>
        \A k \in RootSymbols :
            LET sym == doc.children[k]
            IN  RecordsOf(sym) # { } <=> (AnyLibIdAccepted(sym) /\ HasRefAndFootprint(sym))

C4_Witness ==
    /\ Extracted
    /\ \E k \in RootSymbols : RecordsOf(doc.children[k]) # { }
    /\ \E k \in RootSymbols :
          LET sym == doc.children[k]
          IN  /\ AnyLibIdAccepted(sym) /\ ~FirstLibIdAccepted(sym)
              /\ HasRefAndFootprint(sym)
              /\ RecordsOf(sym) = { }

\* the symbols below the root's children: (i, j) is child j of root child i
NestedSymbols ==
    UNION { { << i, j >> : j \in ChildrenTagged(doc.children[i], S_symbol) } :
              i \in 1..Len(doc.children) }

\* C5: after parse_schematic, no record comes from a symbol nested under a
\* lib_symbols form (nor under any other root child), and every record comes
\* from a direct child of the root that is tagged symbol.
C5_OnlyRootSymbols ==
    Extracted =>
        /\ \A ij \in NestedSymbols :
              RecordsOf(doc.children[ij[1]].children[ij[2]]) = { }
        /\ \A r \in 1..Len(components) :
              \E k \in RootSymbols : r \in RecordsOf(doc.children[k])

C5_Witness ==
    /\ Extracted
    /\ Len(components) > 0
    /\ \E ij \in NestedSymbols :
          LET sym == doc.children[ij[1]].children[ij[2]]
          IN  /\ doc.children[ij[1]].tag = S_lib_symbols
              /\ FirstLibIdAccepted(sym) /\ HasRefAndFootprint(sym)

\* C6: after parse_schematic, each symbol child of the root has at most one
\* record, and the records are in the order of their symbols among the root's
\* children.
C6_SourceOrder ==
    Extracted =>
        /\ \A k \in RootSymbols : Cardinality(RecordsOf(doc.children[k])) <= 1
        /\ \A r1, r2 \in 1..Len(components) :
              r1 < r2 =>
                  \A k1, k2 \in RootSymbols :
                      (r1 \in RecordsOf(doc.children[k1]) /\ r2 \in RecordsOf(doc.children[k2]))
                          => k1 < k2

C6_Witness ==
    /\ Extracted
    /\ \E k1, k2 \in RootSymbols :
          /\ k1 < k2
          /\ RecordsOf(doc.children[k1]) # { }
          /\ RecordsOf(doc.children[k2]) # { }
          /\ RecordsOf(doc.children[k1]) # RecordsOf(doc.children[k2])

\* the root symbols that yield a record, first to last
Accepted ==
    LET A == { k \in RootSymbols :
                 FirstLibIdAccepted(doc.children[k]) /\ HasRefAndFootprint(doc.children[k]) }
    IN  [r \in 1..Cardinality(A) |->
           doc.children[CHOOSE k \in A : Cardinality({ m \in A : m < k }) = r - 1]]

\* C23: the Reference, Value and Footprint of a record are the second direct
\* atom of the last property child of its symbol whose first direct atom is
\* that name, property children with fewer than two direct atoms left out;
\* the last occurrence decides also when its value is empty.
C23_LastPropertyWins ==
    Extracted =>
        /\ Len(components) = Len(Accepted)
        /\ \A r \in 1..Len(components) :
              /\ components[r].ref = FinalValue(Accepted[r], S_Reference)
              /\ components[r].value = FinalValue(Accepted[r], S_Value)
              /\ components[r].footprint = FinalValue(Accepted[r], S_Footprint)

\* a record whose symbol names Reference twice, next to one whose second
\* Value is empty
C23_Witness ==
    /\ Extracted
    /\ Len(components) = 2
    /\ \E r \in 1..2 :
          /\ Cardinality({ i \in ChildrenTagged(Accepted[r], S_property) :
                             NthAtom(Accepted[r].children[i], 1) = S_Reference }) = 2
          /\ startswith(components[r].ref, << "R" >>)
    /\ \E r \in 1..2 :
          /\ Cardinality({ i \in ChildrenTagged(Accepted[r], S_property) :
                             NthAtom(Accepted[r].children[i], 1) = S_Value }) = 2
          /\ components[r].value = << >>

----------------------------------------------------------------------------
(* Properties of the serializer *)

S_kicad_pcb      == Chars("kicad_pcb")
S_footprint_form == Chars("footprint")

\* needle occurs in hay
Contains(hay, needle) ==
    \E i \in 1..(Len(hay) - Len(needle) + 1) :
        \A j \in 1..Len(needle) : hay[i + j - 1] = needle[j]

HasChar(s, c) == \E k \in 1..Len(s) : s[k] = c

\* how many of the tokens read back are the given one
TokenCount(t) == Len(SelectSeq(tokens, LAMBDA x : x = t))

Reread == pc = "reread"

\* the records generate_pcb was given, in its order
Written == all_components(components, groups)

\* the footprint forms of the text read back; the mounting holes come first
FootprintBlocks == find_all(doc, S_footprint_form)
BlockOf(k) == Len(mount_positions(board_width, board_height)) + k

\* C7: the text generate_pcb returns has balanced parentheses, and tokenize
\* followed by parse_tokens turns it into one top-level kicad_pcb form that
\* consumes every token of the text.
C7_WellFormedRoundTrip ==
    Reread =>
        /\ TokenCount(LPAREN) = TokenCount(RPAREN)
        /\ doc.tag = S_kicad_pcb
        /\ doc.value = None
        /\ pos = Len(tokens)

\* the text written for a footprint name that parse_schematic hands over from
\* the quoted atom "A\"B" stops the parser one token short of the end
C7_Witness ==
    /\ Reread
    /\ \E k \in 1..Len(Written) : Written[k].footprint = Chars("A\\\"B")
    /\ \A k \in 1..Len(Written) :
          ~HasChar(Written[k].ref, "\\") /\ ~HasChar(Written[k].value, "\\")
              /\ Written[k].ref # LPAREN
    /\ pos < Len(tokens)

\* C8: a footprint name containing a double quote is written with the quote
\* escaped as backslash-quote, and the footprint block read back from the
\* written text has the original, unescaped name as its name atom.
C8_FootprintNameRoundTrip ==
    Reread =>
        \A k \in 1..Len(Written) :
            HasChar(Written[k].footprint, "\"") =>
                /\ Contains(pcb_content,
                            Chars("(footprint ")
                                \o Quoted(replace(Written[k].footprint, "\"", Chars("\\\""))))
                /\ Len(FootprintBlocks) >= BlockOf(k)
                /\ get_first_atom(FootprintBlocks[BlockOf(k)]) = Written[k].footprint

\* the name A"B comes back as A\"B
C8_Witness ==
    /\ Reread
    /\ Len(Written) = 1
    /\ Written[1].footprint = Chars("A\"B")
    /\ Contains(pcb_content, Chars("(footprint \"A\\\"B\""))
    /\ Len(FootprintBlocks) = BlockOf(1)
    /\ get_first_atom(FootprintBlocks[BlockOf(1)]) = Chars("A\\\"B")

\* the text of a property with a quoted value, up to the end of the value
PropertyText(name, v) == Chars("(property ") \o Quoted(name) \o << " " >> \o Quoted(v)

PropertyNames == << S_Reference, S_Value, S_Footprint >>
PropertyValue(c, n) == << c.ref, c.value, c.footprint >>[n]

\* C9: when a record's Reference, Value or Footprint was read from a quoted
\* atom of the schematic, the board text holds that property with exactly the
\* quoted text that was read.
C9_QuotedValueRoundTrip ==
    pc = "written" =>
        \A k \in 1..Len(components) : \A n \in 1..3 :
            LET quoted == PropertyText(PropertyNames[n], PropertyValue(components[k], n))
            IN  Contains(text, quoted) => Contains(pcb_content, quoted)

\* a record read from (property "Footprint" "A\"B"): its Reference and Value
\* are written as read, its Footprint is not
C9_Witness ==
    /\ pc = "written"
    /\ \E k \in 1..Len(components) :
          LET c == components[k]
          IN  /\ c.footprint = Chars("A\\\"B")
              /\ Contains(text, PropertyText(S_Footprint, c.footprint))
              /\ Contains(pcb_content, PropertyText(S_Reference, c.ref))
              /\ Contains(pcb_content, PropertyText(S_Value, c.value))
              /\ ~Contains(pcb_content, PropertyText(S_Footprint, c.footprint))
              /\ Contains(pcb_content, PropertyText(S_Footprint, Chars("A\\\\\"B")))

----------------------------------------------------------------------------
(* Properties of one run of main() *)

Placement(c) == << c.x, c.y, c.rotation >>

Identity(c) == << c.ref, c.value, c.footprint, c.lib_id, c.layer >>

\* how many passes of the loops of place_components assign to the object c:
\* every loop runs once over its group (the supercap loops over a sorted copy)
Assignments(grps, c) ==
    ListSum([g \in GroupSet |-> Occurrences(grps[g], c)], GroupSet)

\* the line generate_pcb writes for the placement of a record
AtLine(c) ==
    Chars("    (at ") \o format_coord(c.x) \o Chars(" ") \o format_coord(c.y)
        \o Chars(" ") \o Dec(c.rotation) \o Chars(")")

\* C12: in one run of main() every record is created by the extractor with
\* x = 0, y = 0, rotation = 0 and layer F.Cu; group_components leaves the
\* records as they are; place_components assigns (x, y, rotation) to every
\* record in exactly one pass of one loop and changes nothing else;
\* generate_pcb runs after that, writes the assigned values and leaves the
\* records as they are.
C12_RecordLifecycle ==
    [][ /\ (pc = "start" /\ pc' = "parsed") =>
              \A c \in 1..Len(components') :
                  /\ Placement(components'[c]) = << 0, 0, 0 >>
                  /\ components'[c].layer = F_Cu
        /\ (pc = "parsed" /\ pc' = "grouped") => components' = components
        /\ (pc = "grouped" /\ pc' = "placed") =>
              /\ Len(components') = Len(components)
              /\ \A c \in 1..Len(components) :
                    /\ Assignments(groups, c) = 1
                    /\ Placement(components'[c]) # Placement(components[c])
                    /\ Identity(components'[c]) = Identity(components[c])
        /\ (pc # "written" /\ pc' = "written") =>
              /\ pc = "placed"
              /\ components' = components
              /\ \A c \in 1..Len(components) :
                    Contains(pcb_content', AtLine(components[c]))
        /\ components' # components => pc \in { "start", "grouped" }
      ]_vars

\* a finished run with a supercap and a discharge record, both placed
C12_Witness ==
    /\ pc = "written"
    /\ \E c, d \in 1..Len(components) :
          /\ InGroup(c, "supercap_pos") /\ components[c].x > 0
          /\ InGroup(d, "discharge") /\ components[d].rotation = 270

\* a record as the extractor made it: place_components assigns no record the
\* position (0, 0)
Unplaced(c) == c.x = 0 /\ c.y = 0

\* C13: when a record reaches generate_pcb without having been placed,
\* generation fails and no board document is produced.
C13_UnplacedIsFatal ==
    (pc \in { "written", "reread" } /\ \E c \in 1..Len(components) : Unplaced(components[c]))
        => pcb_content = << >>

\* a document written for a record that was never placed, with the record at
\* the origin
C13_Witness ==
    /\ pc = "written"
    /\ \E c \in 1..Len(components) :
          /\ Unplaced(components[c])
          /\ Contains(pcb_content, Chars("    (at 0.0000 0.0000 0)"))
    /\ Len(pcb_content) > 0

----------------------------------------------------------------------------
(* Properties of the reader *)

Tokenized == pc \in { "tokenized", "tree" }

\* the position of the first quote of the text (1-based): no quote comes
\* before it, so it opens a quoted string
FirstQuote == Min({ q \in 1..Len(text) : text[q] = "\"" })

\* the character at p is skipped as the character after a backslash of the
\* string opened at q
RECURSIVE Escaped(_, _)
Escaped(q, p) == p > q + 1 /\ text[p - 1] = "\\" /\ ~Escaped(q, p - 1)

\* the quotes that can close the string opened at q
Closers(q) == { p \in (q + 1)..Len(text) : text[p] = "\"" /\ ~Escaped(q, p) }

\* a bare atom starts at k: a character that is neither skipped nor a
\* delimiter, with only skipped characters back to the last delimiter
AtomStart(k) ==
    /\ ~isspace(text[k]) /\ ~ends_atom(text[k])
    /\ \A m \in 1..(k - 1) :
          (\A n \in m..(k - 1) : ~ends_atom(text[n])) => isspace(text[m])

\* the tokens of the text before position q, where no quote occurs: every
\* parenthesis and every bare atom
TokensBefore(q) ==
    Cardinality({ k \in 1..(q - 1) : text[k] \in { "(", ")" } })
      + Cardinality({ k \in 1..(q - 1) : AtomStart(k) })

\* C14: the token of a quoted string is the raw text between the opening
\* quote and the first later quote that is not skipped as the character after
\* a backslash, backslashes included; without such a quote the token is all
\* the remaining text, it is the last token, and tokenize returns normally.
C14_QuotedToken ==
    (Tokenized /\ HasChar(text, "\"")) =>
        LET q == FirstQuote
            n == TokensBefore(q)
        IN  /\ Len(tokens) > n
            /\ IF Closers(q) # {}
               THEN tokens[n + 1] = SubSeq(text, q + 1, Min(Closers(q)) - 1)
               ELSE /\ tokens[n + 1] = SubSeq(text, q + 1, Len(text))
                    /\ Len(tokens) = n + 1

\* a string with an escaped quote inside, closed by a later quote
C14_Witness ==
    /\ pc = "tokenized"
    /\ HasChar(text, "\"")
    /\ \E p \in (FirstQuote + 1)..Len(text) : text[p] = "\"" /\ Escaped(FirstQuote, p)
    /\ Closers(FirstQuote) # {}
    /\ HasChar(tokens[TokensBefore(FirstQuote) + 1], "\"")

\* the tree of the first n tokens of the form t (n >= 1): a node that has
\* only its parenthesis is an empty node, a node that has its tag has the
\* children its tokens reach, each cut in the same way
RECURSIVE Trunc(_, _), TruncAll(_, _)
Trunc(t, n) ==
    IF t.value # None THEN t
    ELSE IF n = 1 THEN SExp(<< >>, << >>, None)
    ELSE SExp(t.tag, TruncAll(t.children, n - 2), None)

TruncAll(ts, r) ==
    IF ts = << >> \/ r <= 0 THEN << >>
    ELSE << Trunc(Head(ts), Min({ r, Len(TokensOf(Head(ts))) })) >>
             \o TruncAll(Tail(ts), r - Len(TokensOf(Head(ts))))

CutForm == pc = "tree" /\ plan[1] = "form"

\* C15: when the tokens run out before a node is closed, parse_tokens returns
\* normally with every open node holding exactly the children parsed so far;
\* an opening parenthesis as the last token gives an empty node; the cursor
\* stops at the end of the tokens.
C15_TruncatedForm ==
    CutForm =>
        /\ doc = Trunc(plan[2], plan[3])
        /\ pos = plan[3]
        /\ pos = Len(tokens)

\* a form cut right after the opening parenthesis of a node two levels down
C15_Witness ==
    /\ CutForm
    /\ plan[3] < Len(TokensOf(plan[2]))
    /\ doc # plan[2]
    /\ Len(doc.children) >= 1
    /\ LET inner == doc.children[Len(doc.children)]
       IN  /\ inner.value = None
           /\ Len(inner.children) >= 1
           /\ inner.children[Len(inner.children)] = SExp(<< >>, << >>, None)
           /\ tokens[Len(tokens)] = LPAREN

----------------------------------------------------------------------------
(* Properties of the board text *)

HasText == pc \in { "written", "reread" }

\* where needle occurs in hay (the position of its first character)
Occurs(hay, needle) ==
    { i \in 1..(Len(hay) - Len(needle) + 1) :
        \A j \in 1..Len(needle) : hay[i + j - 1] = needle[j] }

\* the k-th smallest member of a set of numbers
Nth(S, k) == CHOOSE m \in S : Cardinality({ n \in S : n < m }) = k - 1

\* a footprint block opens on a line of its own, two blanks in
BlockMarker == << "\n" >> \o Chars("  (footprint \"")

\* the members of a set of numbers in ascending order
Ascending(S) == [k \in 1..Cardinality(S) |-> Nth(S, k)]

\* where the footprint blocks of the text open, first to last
BlockStarts == Ascending(Occurs(pcb_content, BlockMarker))

\* the text of the k-th of the blocks that open at starts: from its opening
\* line up to the opening line of the next block, or to the end of the text
BlockText(starts, k) ==
    SubSeq(pcb_content, starts[k],
           IF k < Len(starts) THEN starts[k + 1] - 1 ELSE Len(pcb_content))

NumHoles == Len(mount_positions(board_width, board_height))

\* C16: the board text holds one footprint block per input record after the
\* four blocks of the mounting holes, in input order: 4 + N blocks for N
\* records, and the k-th component block opens with the k-th record's
\* (quote-escaped) footprint name and its layer and holds its x, y and
\* rotation, its reference and its value.
C16_OneBlockPerRecord ==
    HasText =>
        Bind(BlockStarts, LAMBDA starts : Bind(Written, LAMBDA recs :
        /\ NumHoles = 4
        /\ Len(starts) = 4 + Len(recs)
        /\ \A k \in 1..Len(recs) :
              LET c     == recs[k]
                  block == BlockText(starts, NumHoles + k)
                  open  == BlockMarker \o replace(c.footprint, "\"", Chars("\\\"")) \o Chars("\"")
                              \o << "\n" >> \o Chars("    (layer \"") \o c.layer \o Chars("\")")
                              \o << "\n" >>
              IN  /\ SubSeq(block, 1, Len(open)) = open
                  /\ Contains(block, << "\n" >> \o AtLine(c) \o << "\n" >>)
                  /\ Contains(block, << "\n" >> \o Chars("    ") \o PropertyText(S_Reference, c.ref)
                                          \o << "\n" >>)
                  /\ Contains(block, << "\n" >> \o Chars("    ") \o PropertyText(S_Value, c.value)
                                          \o << "\n" >>)))

\* a text written for two records that differ in every field the block carries
C16_Witness ==
    /\ pc = "written"
    /\ Len(Written) = 2
    /\ Written[1].ref # Written[2].ref
    /\ Written[1].footprint # Written[2].footprint
    /\ Placement(Written[1]) # Placement(Written[2])
    /\ Len(BlockStarts) = 6

endswith(s, p) == Len(s) >= Len(p) /\ SubSeq(s, Len(s) - Len(p) + 1, Len(s)) = p

\* a line of the text: the given characters between two line breaks
Line(l) == << "\n" >> \o l \o << "\n" >>

\* the opening lines of the parts that come before the footprints, in the
\* order of the claim: title block, layer list, setup block, the nets 0 to 6
\* and the outline
PartLines ==
    << Line(Chars("  (title_block")),
       Line(Chars("  (layers")),
       Line(Chars("  (setup")) >>
    \o [k \in 1..7 |-> << "\n" >> \o Chars("  (net ") \o Dec(k - 1) \o Chars(" \"")]
    \o << Line(Chars("  (gr_rect")) >>

\* the text of the Reference property of the i-th mounting hole
HoleReference(i) == PropertyText(S_Reference, << "H" >> \o Dec(i))

\* C17: the board text opens with the header and its title block, then come
\* the layer list, the setup block, the nets in ascending id 0 to 6, one
\* outline rectangle, the mounting holes H1 to H4, the component footprints,
\* and the closing parenthesis of the top-level form ends the text.
C17_PartsInOrder ==
    HasText =>
        Bind(BlockStarts, LAMBDA starts : Bind(Written, LAMBDA recs :
        Bind([k \in 1..Len(PartLines) |-> Ascending(Occurs(pcb_content, PartLines[k]))],
             LAMBDA parts :
        /\ startswith(pcb_content, Chars("(kicad_pcb") \o << "\n" >>)
        /\ \A k \in 1..Len(parts) : Len(parts[k]) = 1
        /\ \A k \in 1..(Len(parts) - 1) : parts[k][1] < parts[k + 1][1]
        /\ Len(starts) = NumHoles + Len(recs)
        /\ parts[Len(parts)][1] < starts[1]
        /\ \A i \in 1..NumHoles :
              /\ Contains(BlockText(starts, i), HoleReference(i))
              /\ \A j \in 1..NumHoles :
                    j # i => ~Contains(BlockText(starts, i), HoleReference(j))
        /\ \A k \in 1..Len(recs) :
              Contains(BlockText(starts, NumHoles + k), PropertyText(S_Reference, recs[k].ref))
        /\ endswith(pcb_content, Line(Chars("  )")) \o Chars(")")))))

\* a text with every part, component footprints included
C17_Witness ==
    /\ pc = "written"
    /\ Len(Written) >= 1
    /\ Len(BlockStarts) > NumHoles
    /\ Cardinality(Occurs(pcb_content, Line(Chars("  (gr_rect")))) = 1
    /\ pcb_content[Len(pcb_content)] = ")"

\* what opens an identifier in the text
UuidMarker == Chars("(uuid \"")

\* the identifier written at position p: the 36 characters behind the marker
UuidAt(p) == SubSeq(pcb_content, p + Len(UuidMarker), p + Len(UuidMarker) + 35)

\* C18: a document for N records takes 21 + 4N calls of generate_uuid (one
\* for the outline, five per mounting hole, four per component), every
\* identifier in the text is the value of a call of its own, and no
\* identifier occurs twice.
C18_IdentifiersDistinct ==
    HasText =>
        Bind(Ascending(Occurs(pcb_content, UuidMarker)), LAMBDA at :
        Bind([k \in 1..Len(at) |-> UuidAt(at[k])], LAMBDA id :
        /\ uuid_calls = 21 + 4 * Len(Written)
        /\ uuid_calls = 1 + 5 * NumHoles + 4 * Len(Written)
        /\ Len(id) = uuid_calls
        /\ \A k \in 1..Len(id) : id[k] = generate_uuid(k)
        /\ \A j, k \in 1..Len(id) : j # k => id[j] # id[k]))

\* a document for two records, its 29 identifiers all different
C18_Witness ==
    /\ pc = "written"
    /\ Len(Written) = 2
    /\ uuid_calls = 29
    /\ Cardinality({ UuidAt(p) : p \in Occurs(pcb_content, UuidMarker) }) = 29

----------------------------------------------------------------------------
(* Frame properties of the classifier and the layout engine *)

\* C21: group_components leaves the records and their sequence as they are,
\* place_components leaves reference, value, footprint, library id and layer
\* of every record as they are, and classifying the records again after
\* placement returns the groups of the first classification.
C21_ClassifyFrame ==
    [][ /\ (pc = "parsed" /\ pc' = "grouped") => components' = components
        /\ (pc = "grouped" /\ pc' = "placed") =>
              /\ Len(components') = Len(components)
              /\ \A c \in 1..Len(components) :
                    Identity(components'[c]) = Identity(components[c])
        /\ (pc = "placed" /\ pc' = "grouped again") =>
              /\ components' = components
              /\ groups' = groups
      ]_vars

\* classified a second time after a placement that moved records of a bank
\* and of the if/elif chain
C21_Witness ==
    /\ pc = "grouped again"
    /\ Len(groups["supercap_pos"]) >= 1
    /\ \E g \in GroupSet \ { "supercap_pos", "supercap_neg", "passives" } :
          Len(groups[g]) >= 1
    /\ \A c \in 1..Len(components) : components[c].x > 0

----------------------------------------------------------------------------
(* Properties of the tree *)

\* the node and every node below it keeps to one role: with a value it has
\* no children and an empty tag, with a tag or a child it has no value
RECURSIVE OneRole(_)
OneRole(n) ==
    /\ n.value # None => (n.children = << >> /\ n.tag = << >>)
    /\ (n.tag # << >> \/ n.children # << >>) => n.value = None
    /\ \A k \in 1..Len(n.children) : OneRole(n.children[k])

\* C22: in the tree parse_tokens builds no node mixes the structural and the
\* leaf role.
C22_OneRolePerNode == pc = "tree" => OneRole(doc)

\* a tree with a tagged node that holds a leaf and a node below it
C22_Witness ==
    /\ pc = "tree"
    /\ doc.tag # << >>
    /\ \E j, k \in 1..Len(doc.children) :
          /\ doc.children[j].value # None
          /\ doc.children[k].value = None
          /\ doc.children[k].tag # << >>

----------------------------------------------------------------------------
(* Properties of bare atoms *)

Unquoted == Tokenized /\ ~HasChar(text, "\"")

\* the tokens of a text without quotes when every whitespace character
\* separates: each parenthesis, and each maximal run of other characters
Separated ==
    LET Delim(k) == text[k] \in { "(", ")" } \/ isspace(text[k])
        Starts   == { k \in 1..Len(text) :
                        text[k] \in { "(", ")" } \/ (~Delim(k) /\ (k = 1 \/ Delim(k - 1))) }
        End(k)   == IF text[k] \in { "(", ")" } THEN k
                    ELSE Max({ e \in k..Len(text) : \A m \in k..e : ~Delim(m) })
    IN  [n \in 1..Cardinality(Starts) |->
           LET k == CHOOSE s \in Starts : Cardinality({ m \in Starts : m < s }) = n - 1
           IN  SubSeq(text, k, End(k))]

\* C24: from a text without quotes every token that is not a parenthesis is
\* a non-empty maximal run holding no whitespace, parenthesis or quote, so
\* whitespace always separates tokens.
C24_WhitespaceSeparates ==
    Unquoted =>
        /\ tokens = Separated
        /\ \A n \in 1..Len(tokens) :
              tokens[n] \in { LPAREN, RPAREN }
                \/ /\ tokens[n] # << >>
                   /\ \A m \in 1..Len(tokens[n]) :
                         ~isspace(tokens[n][m]) /\ tokens[n][m] \notin { "(", ")", "\"" }

\* a form feed between two letters stays inside one token
C24_Witness ==
    /\ Unquoted
    /\ text = << "a", "\f", "a" >>
    /\ tokens = << << "a", "\f", "a" >> >>

----------------------------------------------------------------------------
(* Properties of a whole form *)

\* opening minus closing parentheses among the first j tokens
Depth(j) ==
    Cardinality({ k \in 1..j : tokens[k] = LPAREN })
      - Cardinality({ k \in 1..j : tokens[k] = RPAREN })

\* the tokens begin with a balanced form
Balanced ==
    /\ Len(tokens) >= 1
    /\ tokens[1] = LPAREN
    /\ \E j \in 1..Len(tokens) : Depth(j) = 0

\* the closing parenthesis that matches the first token
Match == Min({ j \in 1..Len(tokens) : Depth(j) = 0 })

\* the tokens begin with a balanced form whose opening parentheses are each
\* followed by an atom
WholeForm ==
    /\ pc = "tree"
    /\ Balanced
    /\ \A k \in 1..Match : tokens[k] = LPAREN => tokens[k + 1] \notin { LPAREN, RPAREN }

\* C25: from tokens that begin with a balanced form in which an atom follows
\* every opening parenthesis, parse_tokens consumes exactly that form: the
\* cursor is just past the matching closing parenthesis, and the tree written
\* back as tokens is the consumed tokens.
C25_ConsumesOneForm ==
    WholeForm =>
        /\ pos = Match
        /\ TokensOf(doc) = SubSeq(tokens, 1, pos)
        /\ plan[1] = "lead" => doc = plan[2]

\* a form with a node among its children, followed by another form that
\* stays unread
C25_Witness ==
    /\ WholeForm
    /\ plan[1] = "lead"
    /\ pos + 4 <= Len(tokens)
    /\ tokens[pos + 1] = LPAREN
    /\ \E k \in 1..Len(doc.children) : doc.children[k].value = None
    /\ \E k \in 1..Len(doc.children) : doc.children[k].value # None

----------------------------------------------------------------------------
(* Properties of quoted strings in the tree *)

\* the text has a quoted string that is closed, and the tree is built
QuotedClosed == pc = "tree" /\ HasChar(text, "\"") /\ Closers(FirstQuote) # {}

\* the content of the first quoted string
QuotedContent == SubSeq(text, FirstQuote + 1, Min(Closers(FirstQuote)) - 1)

\* the text with the content of its first quoted string replaced by the letter a
Requoted ==
    SubSeq(text, 1, FirstQuote) \o << "a" >>
      \o SubSeq(text, Min(Closers(FirstQuote)), Len(text))

\* the structure of a tree: which nodes are leaves, and their arrangement
RECURSIVE Shape(_)
Shape(n) ==
    [leaf |-> n.value # None,
     children |-> [k \in 1..Len(n.children) |-> Shape(n.children[k])]]

\* C26: the content of a quoted string never changes the structure of the
\* tree: its token is a tag or a leaf value also when the content is a
\* parenthesis, so the tree has the structure it has with any other content.
C26_QuotedIsAtom ==
    QuotedClosed =>
        Shape(doc) = Shape(parse_tokens(tokenize(Requoted), 0).node)

\* the text "(" in quotes alone yields an empty node where a leaf is due
C26_Witness ==
    /\ QuotedClosed
    /\ text = Chars("\"(\"")
    /\ tokens = << LPAREN >>
    /\ doc = SExp(<< >>, << >>, None)

----------------------------------------------------------------------------
(* Properties of tags *)

\* no structural node of the tree has a parenthesis as its tag
RECURSIVE AtomTags(_)
AtomTags(n) ==
    /\ n.value = None => n.tag \notin { LPAREN, RPAREN }
    /\ \A k \in 1..Len(n.children) : AtomTags(n.children[k])

\* the tokens open a node, give its tag, an empty list and then an atom
EmptyListThenAtom ==
    /\ Len(tokens) >= 5
    /\ tokens[1] = LPAREN
    /\ tokens[2] \notin { LPAREN, RPAREN }
    /\ tokens[3] = LPAREN
    /\ tokens[4] = RPAREN
    /\ tokens[5] \notin { LPAREN, RPAREN }

\* C27: every structural node has an atom token as its tag, never a
\* parenthesis: neither an empty list nor a doubled opening parenthesis
\* makes a parenthesis the tag, and the atom after an empty list is a child
\* of the enclosing node.
C27_AtomTags ==
    (pc = "tree" /\ ~HasChar(text, "\"")) =>
        /\ AtomTags(doc)
        /\ EmptyListThenAtom =>
              /\ Len(doc.children) >= 2
              /\ doc.children[2] = SExp(<< >>, << >>, tokens[5])

\* an empty list inside a node becomes a node tagged with the closing
\* parenthesis that takes the atom after it
C27_Witness ==
    /\ pc = "tree"
    /\ text = Chars("(a()a")
    /\ EmptyListThenAtom
    /\ doc = SExp(<< "a" >>,
                  << SExp(RPAREN, << SExp(<< >>, << >>, << "a" >>) >>, None) >>,
                  None)

----------------------------------------------------------------------------
(* Properties of positions *)

Placed == pc = "placed"

\* the record a group's loop places with index 0
FirstOf(g) ==
    IF g \in { "supercap_pos", "supercap_neg" }
    THEN components[sorted_by_suffix(components, groups[g])[1]]
    ELSE components[groups[g][1]]

\* the rectangle generate_pcb draws as the board outline
InOutline(c) ==
    /\ 0 <= c.x /\ c.x <= board_width
    /\ 0 <= c.y /\ c.y <= board_height

\* C28: with either board configuration of main, the record placed with
\* index 0 of every group lies inside the board outline.
C28_FirstInsideOutline ==
    Placed => \A g \in DOMAIN groups : groups[g] # << >> => InOutline(FirstOf(g))

\* the first passive of the compact board lies below the outline, while the
\* first record of another group lies inside
C28_Witness ==
    /\ Placed
    /\ compact
    /\ board_height = 100
    /\ groups["passives"] # << >>
    /\ FirstOf("passives").y = 110
    /\ groups["mcu"] # << >>
    /\ InOutline(FirstOf("mcu"))

\* no two records carry the same reference
DistinctRefs ==
    \A c, d \in 1..Len(components) : c # d => components[c].ref # components[d].ref

\* C29: records with pairwise distinct references, classified and placed
\* with either board configuration of main, never share an (x, y) position,
\* within a group or across groups.
C29_NoSharedPosition ==
    (Placed /\ DistinctRefs) =>
        \A c, d \in 1..Len(components) :
            c # d => << components[c].x, components[c].y >>
                       # << components[d].x, components[d].y >>

\* a record of the negative bank and a passive at the same point of the
\* compact board
C29_Witness ==
    /\ Placed
    /\ DistinctRefs
    /\ compact
    /\ \E k \in 1..Len(groups["supercap_neg"]) : \E m \in 1..Len(groups["passives"]) :
          LET c == components[groups["supercap_neg"][k]]
              d == components[groups["passives"][m]]
          IN  c.x = 67 /\ c.y = 115 /\ d.x = 67 /\ d.y = 115

----------------------------------------------------------------------------
(* Progress of the reader *)

\* a parse_tokens call is entered with tokens left: the call of parse_sexp,
\* or a call for an opening parenthesis among the children of a node
CallEntered ==
    \/ pc = "tokens" /\ pos < Len(tokens)
    \/ pc = "building" /\ pos < Len(tokens) /\ tokens[pos + 1] = LPAREN

\* C30: tokenize and parse_tokens terminate: every pass of the tokenizer
\* loop moves the index forward by at least one character; the parser cursor
\* never moves backward, never exceeds the number of tokens, and is moved
\* forward by at least one token by every parse_tokens call entered while
\* tokens remain.
C30_Terminates ==
    /\ <>(pc = "done")
    /\ [][ /\ (pc = "scanning" /\ pc' = "scanning") => pos' >= pos + 1
           /\ pc \in { "tokens", "building" } =>
                 /\ pos' >= pos
                 /\ pos' <= Len(tokens)
                 /\ CallEntered => pos' >= pos + 1
         ]_vars

\* a nested call has been entered and has returned, and the tree is complete
C30_Witness ==
    /\ pc = "done"
    /\ pos = Len(tokens)
    /\ pos >= 6
    /\ \E k \in 1..Len(doc.children) : doc.children[k].value = None

\* the steps build the tree that parse_sexp returns
StepsAgree ==
    pc = "done" => LET r == parse_tokens(tokenize(text), 0)
                   IN  doc = r.node /\ pos = r.pos /\ tokens = tokenize(text)

============================================================================
